---- MODULE Spec2Model ----
(***************************************************************************)
(* A model of the scalar row kernels of yuvutils-rs: the colour transform  *)
(* derivation (yuv_support.rs), the RGB -> bi-planar YUV kernel            *)
(* (rgba_to_nv.rs), the bi-planar and planar 4:2:2 YUV -> RGB kernels      *)
(* (yuv_nv_to_rgba.rs, yuvs/src/yuv422.rs) and the packed YUY2 kernels     *)
(* (yuv_to_yuy2.rs, yuy2_to_yuv.rs).                                       *)
(*                                                                         *)
(* Buffers are functions from 0..len-1 to bytes.  A conversion call is a   *)
(* record of its arguments (call); the row loop of a kernel is one action  *)
(* per row.  The sets wr and rd record every buffer index the kernel has   *)
(* stored to or loaded from, with the image row it was processing.         *)
(***************************************************************************)
EXTENDS Integers, Sequences, FiniteSets, TLC

VARIABLES
    call,        \* the arguments of the conversion call in progress
    rgba,        \* interleaved RGB-family buffer (source or destination)
    y_plane,     \* luma plane
    uv_plane,    \* interleaved chroma plane of the bi-planar formats
    u_plane,     \* planar U
    v_plane,     \* planar V
    yuy2_store,  \* packed YUY2-family buffer
    y,           \* index of the next row of a sequential row loop
    rows,        \* rows already processed by a chunk iterator
    off,         \* running offsets of a sequential row loop
    status,      \* "running", "ok", "err" or "panic"
    wr,          \* per buffer, the stores so far as pairs <<row, index>>
    rd           \* per buffer, the loads so far as pairs <<row, index>>

vars == <<call, rgba, y_plane, uv_plane, u_plane, v_plane, yuy2_store, y, rows, off, status, wr, rd>>

(***************************************************************************)
(* Bounds of the model.                                                    *)
(***************************************************************************)
MaxWidth == 5
MaxHeight == 3
MaxPad == 1
MaxSeed == 1

(***************************************************************************)
(* Integer helpers: Rust's i32 >> (arithmetic), min/max/clamp, `as u8`.    *)
(***************************************************************************)
Pow2(n) ==
    IF n = 0 THEN 1 ELSE IF n = 1 THEN 2 ELSE IF n = 2 THEN 4 ELSE IF n = 3 THEN 8
    ELSE IF n = 4 THEN 16 ELSE IF n = 5 THEN 32 ELSE IF n = 6 THEN 64
    ELSE IF n = 7 THEN 128 ELSE IF n = 8 THEN 256 ELSE IF n = 9 THEN 512
    ELSE IF n = 10 THEN 1024 ELSE IF n = 11 THEN 2048 ELSE IF n = 12 THEN 4096
    ELSE IF n = 13 THEN 8192 ELSE IF n = 14 THEN 16384 ELSE IF n = 15 THEN 32768
    ELSE 65536

Shr(v, n) ==
    v \div Pow2(n)

Min(a, b) ==
    IF a < b THEN a ELSE b

Max(a, b) ==
    IF a > b THEN a ELSE b

Clamp(v, lo, hi) ==
    Max(lo, Min(hi, v))

AsU8(v) ==
    v % 256

Abs(v) ==
    IF v < 0 THEN -v ELSE v

(***************************************************************************)
(* f32 arithmetic of the transform derivation, as exact rationals <<n, d>> *)
(* in lowest terms (d > 0).  The primaries are 4-digit decimals, so every  *)
(* coefficient is a rational; rounding it half away from zero is what      *)
(* f32::round does to the product with the precision scale.                *)
(***************************************************************************)
RECURSIVE GCD(_, _)
GCD(a, b) ==
    IF b = 0 THEN a ELSE GCD(b, a % b)

Rat(n, d) ==
    LET g == GCD(Abs(n), d) IN <<n \div g, d \div g>>

RatInt(n) ==
    <<n, 1>>

RatMul(p, q) ==
    LET g1 == GCD(Abs(p[1]), q[2])
        g2 == GCD(Abs(q[1]), p[2])
    IN  <<(p[1] \div g1) * (q[1] \div g2), (p[2] \div g2) * (q[2] \div g1)>>

RatDiv(p, q) ==
    RatMul(p, IF q[1] < 0 THEN <<-q[2], -q[1]>> ELSE <<q[2], q[1]>>)

RatSub(p, q) ==
    Rat(p[1] * q[2] - q[1] * p[2], p[2] * q[2])

RatRound(p) ==
    LET a == Abs(p[1])
        q == a \div p[2]
        r == a % p[2]
        v == IF r >= p[2] - r THEN q + 1 ELSE q
    IN  IF p[1] < 0 THEN -v ELSE v

(***************************************************************************)
(* yuv_support.rs                                                          *)
(***************************************************************************)
YuvRange == {"TV", "Full"}

YuvStandardMatrix == {"Bt601", "Bt709", "Bt2020", "Smpte240", "Bt470_6"}

\* the standard matrices and YuvStandardMatrix::Custom(0.5, 0.5), whose kg is 0
Matrices ==
    YuvStandardMatrix \cup {"Custom(0.5, 0.5)"}

YuvChromaSample == {"YUV420", "YUV422", "YUV444"}

YuvNVOrder == {"UV", "VU"}

YuvSourceChannels == {"Rgb", "Rgba", "Bgra", "Bgr"}

\* faulty variant of get_yuv_range: the luma and chroma ranges of depth 8
\* next to the biases of the depth asked for
get_yuv_range_of_depth_8(depth, range) ==
    IF range = "TV"
    THEN [bias_y |-> 16 * Pow2(depth - 8), bias_uv |-> Pow2(depth - 1),
          range_y |-> 219, range_uv |-> 224]
    ELSE [bias_y |-> 0, bias_uv |-> Pow2(depth - 1), range_y |-> 255, range_uv |-> 255]

get_yuv_range(depth, range) ==
    IF range = "TV"
    THEN [bias_y |-> 16 * Pow2(depth - 8), bias_uv |-> Pow2(depth - 1),
          range_y |-> 219 * Pow2(depth - 8), range_uv |-> 224 * Pow2(depth - 8)]
    ELSE [bias_y |-> 0, bias_uv |-> Pow2(depth - 1),
          range_y |-> Pow2(depth) - 1, range_uv |-> Pow2(depth) - 1]

\* kr, kb as rationals: 0.299f32 is modelled as 2990/10000
get_kr_kb(matrix) ==
    CASE matrix = "Bt601" -> [kr |-> Rat(2990, 10000), kb |-> Rat(1140, 10000)]
      [] matrix = "Bt709" -> [kr |-> Rat(2126, 10000), kb |-> Rat(722, 10000)]
      [] matrix = "Bt2020" -> [kr |-> Rat(2627, 10000), kb |-> Rat(593, 10000)]
      [] matrix = "Smpte240" -> [kr |-> Rat(870, 10000), kb |-> Rat(2120, 10000)]
      [] matrix = "Bt470_6" -> [kr |-> Rat(2220, 10000), kb |-> Rat(713, 10000)]
      [] matrix = "Custom(0.5, 0.5)" -> [kr |-> Rat(5000, 10000), kb |-> Rat(5000, 10000)]

get_forward_transform(range_rgba, range_y, range_uv, kr, kb) ==
    LET kg == RatSub(RatSub(RatInt(1), kr), kb)
        ry == RatInt(range_y)
        rr == RatInt(range_rgba)
        ruv == RatInt(range_uv)
        mhalf == <<-1, 2>>
        half == <<1, 2>>
        omkb == RatSub(RatInt(1), kb)
        omkr == RatSub(RatInt(1), kr)
    IN  [yr |-> RatDiv(RatMul(kr, ry), rr),
         yg |-> RatDiv(RatMul(kg, ry), rr),
         yb |-> RatDiv(RatMul(kb, ry), rr),
         cb_r |-> RatDiv(RatMul(RatDiv(RatMul(mhalf, kr), omkb), ruv), rr),
         cb_g |-> RatDiv(RatMul(RatDiv(RatMul(mhalf, kg), omkb), ruv), rr),
         cb_b |-> RatDiv(RatMul(half, ruv), rr),
         cr_r |-> RatDiv(RatMul(half, ruv), rr),
         cr_g |-> RatDiv(RatMul(RatDiv(RatMul(mhalf, kg), omkr), ruv), rr),
         cr_b |-> RatDiv(RatMul(RatDiv(RatMul(mhalf, kb), omkr), ruv), rr)]

\* ToIntegerTransform for CbCrForwardTransform<f32>
to_integers_forward(t, precision) ==
    LET scale == RatInt(Pow2(precision))
    IN  [yr |-> RatRound(RatMul(t.yr, scale)),
         yg |-> RatRound(RatMul(t.yg, scale)),
         yb |-> RatRound(RatMul(t.yb, scale)),
         cb_r |-> RatRound(RatMul(t.cb_r, scale)),
         cb_g |-> RatRound(RatMul(t.cb_g, scale)),
         cb_b |-> RatRound(RatMul(t.cb_b, scale)),
         cr_r |-> RatRound(RatMul(t.cr_r, scale)),
         cr_g |-> RatRound(RatMul(t.cr_g, scale)),
         cr_b |-> RatRound(RatMul(t.cr_b, scale))]

\* panics when kg = 0: the result then has fails = TRUE and no coefficients
get_inverse_transform(range_bgra, range_y, range_uv, kr, kb) ==
    LET ruv == RatDiv(RatInt(range_bgra), RatInt(range_uv))
        y_coef == RatDiv(RatInt(range_bgra), RatInt(range_y))
        omkr == RatSub(RatInt(1), kr)
        omkb == RatSub(RatInt(1), kb)
        kg == RatSub(RatSub(RatInt(1), kr), kb)
    IN  IF kg[1] = 0
        THEN [fails |-> TRUE]
        ELSE [fails |-> FALSE,
              y_coef |-> y_coef,
              cr_coef |-> RatMul(RatMul(RatInt(2), omkr), ruv),
              cb_coef |-> RatMul(RatMul(RatInt(2), omkb), ruv),
              g_coeff_1 |-> RatMul(RatMul(RatInt(2), RatDiv(RatMul(omkr, kr), kg)), ruv),
              g_coeff_2 |-> RatMul(RatMul(RatInt(2), RatDiv(RatMul(omkb, kb), kg)), ruv)]

\* CbCrInverseTransform<f32>::to_integers
to_integers_inverse(t, precision) ==
    LET scale == RatInt(Pow2(precision))
    IN  [fails |-> FALSE,
         y_coef |-> RatRound(RatMul(t.y_coef, scale)),
         cr_coef |-> RatRound(RatMul(t.cr_coef, scale)),
         cb_coef |-> RatRound(RatMul(t.cb_coef, scale)),
         g_coeff_1 |-> RatRound(RatMul(t.g_coeff_1, scale)),
         g_coeff_2 |-> RatRound(RatMul(t.g_coeff_2, scale))]

get_channels_count(ch) ==
    IF ch \in {"Rgb", "Bgr"} THEN 3 ELSE 4

has_alpha(ch) ==
    ch \in {"Rgba", "Bgra"}

get_r_channel_offset(ch) ==
    IF ch \in {"Rgb", "Rgba"} THEN 0 ELSE 2

get_g_channel_offset(ch) ==
    1

get_b_channel_offset(ch) ==
    IF ch \in {"Rgb", "Rgba"} THEN 2 ELSE 0

get_a_channel_offset(ch) ==
    IF ch \in {"Rgb", "Bgr"} THEN 0 ELSE 3

nv_get_u_position(order) ==
    IF order = "UV" THEN 0 ELSE 1

nv_get_v_position(order) ==
    IF order = "UV" THEN 1 ELSE 0

(***************************************************************************)
(* Buffer access.  Every load and store goes through these, which record   *)
(* the index in rd / wr.  A store outside the buffer changes no element of *)
(* it (InBounds states that no reachable state has such an index).         *)
(***************************************************************************)
Load(buf, i) ==
    IF i \in DOMAIN buf THEN buf[i] ELSE 0

Store(buf, i, v) ==
    IF i \in DOMAIN buf THEN [buf EXCEPT ![i] = v] ELSE buf

Buffer(len, v) ==
    [i \in 0..(len - 1) |-> v]

DivCeil(a, b) ==
    (a + b - 1) \div b

(***************************************************************************)
(* rgba_to_nv.rs: rgbx_to_nv, RGB family -> bi-planar YUV, 8 bit           *)
(***************************************************************************)
PRECISION_FWD == 8

forward_transform(range, matrix) ==
    LET rng == get_yuv_range(8, range)
        kr_kb == get_kr_kb(matrix)
        max_range_p8 == Pow2(8) - 1
    IN  to_integers_forward(
            get_forward_transform(max_range_p8, rng.range_y, rng.range_uv, kr_kb.kr, kr_kb.kb),
            PRECISION_FWD)

\* the transform of every (range, matrix), derived once
forward_transforms ==
    [range \in YuvRange |-> [matrix \in Matrices |-> forward_transform(range, matrix)]]

iterator_step(sampling) ==
    IF sampling = "YUV444" THEN 1 ELSE 2

compute_uv_row(sampling, yy) ==
    sampling = "YUV444" \/ sampling = "YUV422" \/ yy % 2 = 0

rounded_bias_truncating(bias) ==
    bias * Pow2(PRECISION_FWD)

\* bias_y / bias_uv with the rounding constant folded in
rounded_bias(bias) ==
    bias * Pow2(PRECISION_FWD) + Pow2(PRECISION_FWD - 1)

\* y_0 / y_1: the luma of one pixel, as stored
luma_of(range, matrix, r, g, b) ==
    LET t == forward_transforms[range][matrix]
        rng == get_yuv_range(8, range)
        i_bias_y == rng.bias_y
        i_cap_y == rng.range_y + i_bias_y
        v == Shr(r * t.yr + g * t.yg + b * t.yb + rounded_bias(rng.bias_y), PRECISION_FWD)
    IN  AsU8(Clamp(v, i_bias_y, i_cap_y))

\* cb and cr of one (already averaged) r, g, b, as stored
chroma_of(range, matrix, r, g, b) ==
    LET t == forward_transforms[range][matrix]
        rng == get_yuv_range(8, range)
        i_bias_y == rng.bias_y
        i_cap_uv == i_bias_y + rng.range_uv
        bias_uv == rounded_bias(rng.bias_uv)
        cb == Shr(r * t.cb_r + g * t.cb_g + b * t.cb_b + bias_uv, PRECISION_FWD)
        cr == Shr(r * t.cr_r + g * t.cr_g + b * t.cr_b + bias_uv, PRECISION_FWD)
    IN  [cb |-> AsU8(Clamp(cb, i_bias_y, i_cap_uv)), cr |-> AsU8(Clamp(cr, i_bias_y, i_cap_uv))]

\* faulty variant of pair_average: the mean truncated instead of rounded up
pair_average_truncated(sampling, c0, c1) ==
    IF sampling = "YUV444" THEN c0 ELSE Shr(c0 + c1, 1)

\* r, g, b handed to the chroma transform: the pixel itself at 4:4:4, the
\* rounded-up mean of the pair otherwise
pair_average(sampling, c0, c1) ==
    IF sampling = "YUV444" THEN c0 ELSE Shr(c0 + c1 + 1, 1)

\* faulty variant of has_next_pixel: the bound check on x + 1 left out
has_next_pixel_unchecked(sampling, x, width) ==
    sampling \in {"YUV420", "YUV422"}

\* whether the loop body loads a second pixel at x + 1
has_next_pixel(sampling, x, width) ==
    sampling \in {"YUV420", "YUV422"} /\ x + 1 < width

\* faulty variant of unpaired_partner: r1 starts at 0 instead of r0
unpaired_partner_zero(c0) ==
    0

\* r1, g1, b1 before a second pixel is loaded: `let mut r1 = r0`
unpaired_partner(c0) ==
    c0

\* whether the loop body stores y_0 (the luma of the pixel at x)
stores_y_0(sampling, yy) ==
    compute_uv_row(sampling, yy)

\* the stores and loads of the loop body on s = [yp, uvp, wy, wuv, rds], the
\* planes and the access sets so far; each is skipped unless `when` holds
store_luma(when, s, yy, i, v) ==
    IF when
    THEN [s EXCEPT !.yp = Store(@, i, v), !.wy = @ \cup {<<yy, i>>}]
    ELSE s

store_chroma(when, s, yy, i_u, i_v, uv) ==
    IF when
    THEN [s EXCEPT !.uvp = Store(Store(@, i_u, uv.cb), i_v, uv.cr),
                   !.wuv = @ \cup {<<yy, i_u>>, <<yy, i_v>>}]
    ELSE s

note_loads(when, s, yy, shift, ch) ==
    IF when
    THEN [s EXCEPT !.rds = @ \cup {<<yy, shift + get_r_channel_offset(ch)>>,
                                   <<yy, shift + get_g_channel_offset(ch)>>,
                                   <<yy, shift + get_b_channel_offset(ch)>>}]
    ELSE s

\* one iteration of the pixel loop: o are the row's offsets, yy the row, ux the
\* chroma cursor
rgbx_to_nv_pixel(c, src, o, yy, x, ux, s) ==
    LET ch == c.ORIGIN_CHANNELS
        channels == get_channels_count(ch)
        rgba_shift == o.rgba_offset + x * channels
        r0 == Load(src, rgba_shift + get_r_channel_offset(ch))
        g0 == Load(src, rgba_shift + get_g_channel_offset(ch))
        b0 == Load(src, rgba_shift + get_b_channel_offset(ch))
        next == has_next_pixel(c.SAMPLING, x, c.width)
        next_x == x + 1
        next_shift == o.rgba_offset + next_x * channels
        r1 == IF next THEN Load(src, next_shift + get_r_channel_offset(ch))
              ELSE unpaired_partner(r0)
        g1 == IF next THEN Load(src, next_shift + get_g_channel_offset(ch))
              ELSE unpaired_partner(g0)
        b1 == IF next THEN Load(src, next_shift + get_b_channel_offset(ch))
              ELSE unpaired_partner(b0)
        uv_pos == o.uv_offset + ux
    IN  store_chroma(compute_uv_row(c.SAMPLING, yy),
            store_luma(stores_y_0(c.SAMPLING, yy),
                store_luma(next,
                    note_loads(next, note_loads(TRUE, s, yy, rgba_shift, ch), yy, next_shift, ch),
                    yy, o.y_offset + next_x, luma_of(c.range, c.matrix, r1, g1, b1)),
                yy, o.y_offset + x, luma_of(c.range, c.matrix, r0, g0, b0)),
            yy, uv_pos + nv_get_u_position(c.UV_ORDER), uv_pos + nv_get_v_position(c.UV_ORDER),
            chroma_of(c.range, c.matrix, pair_average(c.SAMPLING, r0, r1),
                      pair_average(c.SAMPLING, g0, g1), pair_average(c.SAMPLING, b0, b1)))

\* the pixel loop of one row: for x in (cx..width).step_by(iterator_step), ux += 2
RECURSIVE rgbx_to_nv_row(_, _, _, _, _, _, _)
rgbx_to_nv_row(c, src, o, yy, x, ux, s) ==
    IF x >= c.width
    THEN s
    ELSE rgbx_to_nv_row(c, src, o, yy, x + iterator_step(c.SAMPLING), ux + 2,
                        rgbx_to_nv_pixel(c, src, o, yy, x, ux, s))

\* the offsets after row yy
next_offsets(c, o, yy) ==
    [y_offset |-> o.y_offset + c.y_stride,
     rgba_offset |-> o.rgba_offset + c.rgba_stride,
     uv_offset |-> IF c.SAMPLING = "YUV420"
                   THEN (IF yy % 2 = 1 THEN o.uv_offset + c.uv_stride ELSE o.uv_offset)
                   ELSE o.uv_offset + c.uv_stride]

\* one iteration of `for y in 0..height`; the function returns after the last
RgbxToNvRow ==
    /\ call.kernel = "rgbx_to_nv"
    /\ status = "running"
    /\ y < call.height
    /\ LET s == rgbx_to_nv_row(call, rgba, off, y, 0, 0,
                    [yp |-> y_plane, uvp |-> uv_plane, wy |-> wr.y_plane,
                     wuv |-> wr.uv_plane, rds |-> rd.rgba])
       IN  /\ y_plane' = s.yp
           /\ uv_plane' = s.uvp
           /\ wr' = [wr EXCEPT !.y_plane = s.wy, !.uv_plane = s.wuv]
           /\ rd' = [rd EXCEPT !.rgba = s.rds]
    /\ off' = next_offsets(call, off, y)
    /\ y' = y + 1
    /\ status' = IF y + 1 = call.height THEN "ok" ELSE "running"
    /\ UNCHANGED <<call, rgba, u_plane, v_plane, yuy2_store, rows>>

(***************************************************************************)
(* Inputs of the forward kernel: every sampling, width and height, the     *)
(* strides tight or padded, a source image drawn from a palette.           *)
(***************************************************************************)
Palette ==
    << <<0, 0, 0>>, <<255, 255, 255>>, <<255, 0, 0>>, <<0, 255, 0>>,
       <<0, 0, 255>>, <<17, 100, 201>>, <<254, 1, 128>>, <<90, 91, 93>> >>

\* the pixel at column x of row yy of the image numbered seed
SourcePixel(seed, x, yy) ==
    Palette[((seed + x + 3 * yy) % Len(Palette)) + 1]

\* byte i of the interleaved source buffer: padding bytes are 0, alpha is 255
SourceByte(ch, seed, width, stride, i) ==
    LET channels == get_channels_count(ch)
        col == i % stride
        x == col \div channels
        k == col % channels
        p == SourcePixel(seed, x, i \div stride)
    IN  IF col >= width * channels THEN 0
        ELSE IF k = get_r_channel_offset(ch) THEN p[1]
        ELSE IF k = get_g_channel_offset(ch) THEN p[2]
        ELSE IF k = get_b_channel_offset(ch) THEN p[3]
        ELSE 255

\* channel order and chroma order are drawn together
ForwardLayouts ==
    {<<"Rgb", "UV">>, <<"Rgba", "VU">>, <<"Bgra", "UV">>, <<"Bgr", "VU">>}

NoAccess ==
    [rgba |-> {}, y_plane |-> {}, uv_plane |-> {}, u_plane |-> {}, v_plane |-> {}, yuy2_store |-> {}]

chroma_rows(sampling, height) ==
    IF sampling = "YUV420" THEN DivCeil(height, 2) ELSE height

nv_chroma_row_bytes(sampling, width) ==
    IF sampling = "YUV444" THEN 2 * width ELSE 2 * DivCeil(width, 2)

InitForwardWith(matrices) ==
    \E layout \in ForwardLayouts, sampling \in YuvChromaSample, range \in YuvRange,
       matrix \in matrices, width \in 1..MaxWidth, height \in 1..MaxHeight,
       pad \in 0..MaxPad, seed \in 0..MaxSeed :
        LET ch == layout[1]
            y_stride == width + pad
            uv_stride == nv_chroma_row_bytes(sampling, width) + pad
            rgba_stride == width * get_channels_count(ch) + pad
        IN  /\ call = [kernel |-> "rgbx_to_nv", ORIGIN_CHANNELS |-> ch, UV_ORDER |-> layout[2],
                       SAMPLING |-> sampling, range |-> range, matrix |-> matrix,
                       width |-> width, height |-> height, y_stride |-> y_stride,
                       uv_stride |-> uv_stride, rgba_stride |-> rgba_stride, seed |-> seed]
            /\ rgba = [i \in 0..(rgba_stride * height - 1) |->
                          SourceByte(ch, seed, width, rgba_stride, i)]
            /\ y_plane = Buffer(y_stride * height, 0)
            /\ uv_plane = Buffer(uv_stride * chroma_rows(sampling, height), 0)
            /\ u_plane = <<>>
            /\ v_plane = <<>>
            /\ yuy2_store = <<>>
            /\ y = 0
            /\ rows = {}
            /\ off = [y_offset |-> 0, uv_offset |-> 0, rgba_offset |-> 0]
            /\ status = "running"
            /\ wr = NoAccess
            /\ rd = NoAccess

InitForward ==
    InitForwardWith(YuvStandardMatrix)

NextForward ==
    RgbxToNvRow

SpecForward ==
    InitForward /\ [][NextForward]_vars

(***************************************************************************)
(* Properties of the forward kernel (SpecForward).                         *)
(***************************************************************************)
\* channel k (1 = R, 2 = G, 3 = B) of source pixel (x, yy) of the call
SourceChannel(x, yy, k) ==
    LET ch == call.ORIGIN_CHANNELS
        o == IF k = 1 THEN get_r_channel_offset(ch)
             ELSE IF k = 2 THEN get_g_channel_offset(ch)
             ELSE get_b_channel_offset(ch)
    IN  rgba[yy * call.rgba_stride + x * get_channels_count(ch) + o]

\* the luma sample and the two chroma bytes of chroma sample i, as left in the planes
LumaAt(x, yy) ==
    y_plane[yy * call.y_stride + x]

NvChromaRow(yy) ==
    IF call.SAMPLING = "YUV420" THEN yy \div 2 ELSE yy

CbAt(i, yy) ==
    uv_plane[NvChromaRow(yy) * call.uv_stride + 2 * i + nv_get_u_position(call.UV_ORDER)]

CrAt(i, yy) ==
    uv_plane[NvChromaRow(yy) * call.uv_stride + 2 * i + nv_get_v_position(call.UV_ORDER)]

ForwardDone ==
    call.kernel = "rgbx_to_nv" /\ status = "ok"

Subsampled ==
    call.SAMPLING \in {"YUV420", "YUV422"}

\* C1: when rgbx_to_nv has returned, every luma sample Y[y][x], x < width,
\* y < height, has been stored and holds the transformed luma of source pixel
\* (x, y), at every subsampling and on every row, chroma row or not.
C1_LumaWrittenEveryPixel ==
    ForwardDone =>
        \A yy \in 0..(call.height - 1), x \in 0..(call.width - 1) :
            /\ <<yy, yy * call.y_stride + x>> \in wr.y_plane
            /\ LumaAt(x, yy) = luma_of(call.range, call.matrix, SourceChannel(x, yy, 1),
                                       SourceChannel(x, yy, 2), SourceChannel(x, yy, 3))

\* C6: a 4:2:0 forward conversion of odd width loads only bytes of source
\* pixels with column < width and, within each row, stores only luma indices
\* < width and interleaved chroma byte indices < 2 * ceil(width / 2).
C6_OddWidth420InBounds ==
    (call.kernel = "rgbx_to_nv" /\ call.SAMPLING = "YUV420" /\ call.width % 2 = 1) =>
        /\ \A a \in rd.rgba :
              LET col == a[2] - a[1] * call.rgba_stride
              IN  col >= 0 /\ col < call.width * get_channels_count(call.ORIGIN_CHANNELS)
        /\ \A a \in wr.y_plane :
              LET col == a[2] - a[1] * call.y_stride
              IN  col >= 0 /\ col < call.width
        /\ \A a \in wr.uv_plane :
              LET col == a[2] - (a[1] \div 2) * call.uv_stride
              IN  col >= 0 /\ col < 2 * DivCeil(call.width, 2)

\* a finished 4:2:0 call of width 5 that loaded the last column and stored
\* its luma and the last chroma pair of the first row
C6_Witness ==
    /\ ForwardDone /\ call.SAMPLING = "YUV420" /\ call.width = 5
    /\ <<0, 4 * get_channels_count(call.ORIGIN_CHANNELS) + 1>> \in rd.rgba
    /\ <<0, 4>> \in wr.y_plane
    /\ <<0, 5>> \in wr.uv_plane

\* C7: at 4:2:2 and 4:2:0, for each pair (x, x + 1), x even, of a row whose
\* chroma is computed, the stored Cb and Cr are the chroma transform of the
\* per-channel means (c0 + c1 + 1) >> 1 of the two pixels.
C7_ChromaOfAveragedPair ==
    (ForwardDone /\ Subsampled) =>
        \A yy \in 0..(call.height - 1), x \in 0..(call.width - 1) :
            (x % 2 = 0 /\ x + 1 < call.width /\ (call.SAMPLING = "YUV422" \/ yy % 2 = 0)) =>
                LET r == (SourceChannel(x, yy, 1) + SourceChannel(x + 1, yy, 1) + 1) \div 2
                    g == (SourceChannel(x, yy, 2) + SourceChannel(x + 1, yy, 2) + 1) \div 2
                    b == (SourceChannel(x, yy, 3) + SourceChannel(x + 1, yy, 3) + 1) \div 2
                    uv == chroma_of(call.range, call.matrix, r, g, b)
                IN  CbAt(x \div 2, yy) = uv.cb /\ CrAt(x \div 2, yy) = uv.cr

\* the chroma of one source pixel transformed on its own
OwnChroma(x, yy) ==
    chroma_of(call.range, call.matrix, SourceChannel(x, yy, 1), SourceChannel(x, yy, 2),
              SourceChannel(x, yy, 3))

\* a finished subsampled call with a pair whose stored Cb differs from the
\* rounded mean of the two pixels' own Cb: the order of averaging and
\* transforming shows in the output
C7_Witness ==
    /\ ForwardDone /\ Subsampled
    /\ \E x \in 0..(call.width - 2) :
          /\ x % 2 = 0
          /\ <<0, x + nv_get_u_position(call.UV_ORDER)>> \in wr.uv_plane
          /\ CbAt(x \div 2, 0) # (OwnChroma(x, 0).cb + OwnChroma(x + 1, 0).cb + 1) \div 2

\* row yy of the source with its last pixel duplicated once, as a buffer of its own
ExtendedRow(yy) ==
    LET channels == get_channels_count(call.ORIGIN_CHANNELS)
        n == call.width * channels
    IN  [i \in 0..(n + channels - 1) |->
            rgba[yy * call.rgba_stride + (IF i < n THEN i ELSE i - channels)]]

\* the chroma plane row the kernel produces for ExtendedRow(yy)
ExtendedChroma(yy) ==
    rgbx_to_nv_row([call EXCEPT !.width = call.width + 1], ExtendedRow(yy),
                   [y_offset |-> 0, uv_offset |-> 0, rgba_offset |-> 0], yy, 0, 0,
                   [yp |-> Buffer(call.width + 1, 0), uvp |-> Buffer(call.width + 1, 0),
                    wy |-> {}, wuv |-> {}, rds |-> {}]).uvp

\* C8: for odd width at 4:2:2 and 4:2:0, the chroma sample of the final
\* unpaired column is the chroma transform of that column's own R, G, B, which
\* is also what the kernel stores for the row extended by a copy of its last pixel.
C8_LastColumnSelfPaired ==
    (ForwardDone /\ Subsampled /\ call.width % 2 = 1) =>
        \A yy \in 0..(call.height - 1) :
            (call.SAMPLING = "YUV422" \/ yy % 2 = 0) =>
                LET last == call.width - 1
                    i == last \div 2
                    ext == ExtendedChroma(yy)
                IN  /\ CbAt(i, yy) = OwnChroma(last, yy).cb
                    /\ CrAt(i, yy) = OwnChroma(last, yy).cr
                    /\ CbAt(i, yy) = ext[2 * i + nv_get_u_position(call.UV_ORDER)]
                    /\ CrAt(i, yy) = ext[2 * i + nv_get_v_position(call.UV_ORDER)]

\* a finished subsampled call of odd width >= 3 that stored the chroma of the
\* unpaired last column, whose colour is not the one of the column before it
C8_Witness ==
    /\ ForwardDone /\ Subsampled /\ call.width % 2 = 1 /\ call.width >= 3
    /\ <<0, call.width - 1 + nv_get_u_position(call.UV_ORDER)>> \in wr.uv_plane
    /\ OwnChroma(call.width - 1, 0) # OwnChroma(call.width - 2, 0)


(***************************************************************************)
(* Inverse kernels: the arithmetic shared by yuv_nv12_to_rgbx and          *)
(* yuv422_to_rgba (the two functions spell out the same expressions).      *)
(***************************************************************************)
Length(buf) ==
    Cardinality(DOMAIN buf)

saturate_wrapping(v, max_value) ==
    v

\* .min(255).max(0) in yuv_nv12_to_rgbx, .clamp(0, max_value) in yuv422_to_rgba
saturate(v, max_value) ==
    Max(Min(v, max_value), 0)

\* faulty variant of inverse_pixel: Cb drives red and Cr drives blue
inverse_pixel_chroma_swapped(t, rng, precision, max_value, y_src, cb_src, cr_src) ==
    LET y_value == (y_src - rng.bias_y) * t.y_coef
        cb_value == cb_src - rng.bias_uv
        cr_value == cr_src - rng.bias_uv
        ROUNDING_CONST == Pow2(precision - 1)
    IN  [r |-> saturate(Shr(y_value + t.cr_coef * cb_value + ROUNDING_CONST, precision),
                        max_value),
         b |-> saturate(Shr(y_value + t.cb_coef * cr_value + ROUNDING_CONST, precision),
                        max_value),
         g |-> saturate(Shr(y_value - t.g_coeff_1 * cr_value - t.g_coeff_2 * cb_value
                            + ROUNDING_CONST, precision), max_value)]

\* r, g, b of one output pixel from one luma sample and one chroma sample
inverse_pixel(t, rng, precision, max_value, y_src, cb_src, cr_src) ==
    LET y_value == (y_src - rng.bias_y) * t.y_coef
        cb_value == cb_src - rng.bias_uv
        cr_value == cr_src - rng.bias_uv
        ROUNDING_CONST == Pow2(precision - 1)
    IN  [r |-> saturate(Shr(y_value + t.cr_coef * cr_value + ROUNDING_CONST, precision),
                        max_value),
         b |-> saturate(Shr(y_value + t.cb_coef * cb_value + ROUNDING_CONST, precision),
                        max_value),
         g |-> saturate(Shr(y_value - t.g_coeff_1 * cr_value - t.g_coeff_2 * cb_value
                            + ROUNDING_CONST, precision), max_value)]

\* the stores of one pixel into the interleaved destination, each `as u8`
store_rgbx(when, s, yy, shift, ch, p, alpha) ==
    IF when
    THEN [s EXCEPT
            !.dst = IF has_alpha(ch)
                    THEN Store(Store(Store(Store(@, shift + get_b_channel_offset(ch), AsU8(p.b)),
                                           shift + get_g_channel_offset(ch), AsU8(p.g)),
                                     shift + get_r_channel_offset(ch), AsU8(p.r)),
                               shift + get_a_channel_offset(ch), AsU8(alpha))
                    ELSE Store(Store(Store(@, shift + get_b_channel_offset(ch), AsU8(p.b)),
                                     shift + get_g_channel_offset(ch), AsU8(p.g)),
                               shift + get_r_channel_offset(ch), AsU8(p.r)),
            !.wdst = @ \cup {<<yy, shift + get_b_channel_offset(ch)>>,
                             <<yy, shift + get_g_channel_offset(ch)>>,
                             <<yy, shift + get_r_channel_offset(ch)>>}
                       \cup (IF has_alpha(ch)
                             THEN {<<yy, shift + get_a_channel_offset(ch)>>} ELSE {})]
    ELSE s

(***************************************************************************)
(* yuv_nv_to_rgba.rs: yuv_nv12_to_rgbx, bi-planar YUV -> RGB family, 8 bit *)
(***************************************************************************)
PRECISION_NV == 6

nv_inverse_transform(range, matrix) ==
    LET rng == get_yuv_range(8, range)
        k == get_kr_kb(matrix)
        t == get_inverse_transform(255, rng.range_y, rng.range_uv, k.kr, k.kb)
    IN  IF t.fails THEN t ELSE to_integers_inverse(t, PRECISION_NV)

nv_inverse_transforms ==
    [range \in YuvRange |-> [matrix \in Matrices |-> nv_inverse_transform(range, matrix)]]

\* the destination is cut into whole rows of bgra_stride bytes; height is not used
nv_rows(c) ==
    Length(rgba) \div c.bgra_stride

nv_uv_offset(c, yy) ==
    IF c.SAMPLING = "YUV420" THEN Shr(yy, 1) * c.uv_stride ELSE yy * c.uv_stride

nv_has_next_px(sampling, x, width) ==
    sampling \in {"YUV422", "YUV420"} /\ x + 1 < width

nv_next_ux_skipping(ux) ==
    ux + 4

nv_next_ux(ux) ==
    ux + 2

yuv_nv12_to_rgbx_pixel(c, t, rng, yy, x, ux, s) ==
    LET y_offset == yy * c.y_stride
        i_cb == nv_uv_offset(c, yy) + ux + nv_get_u_position(c.UV_ORDER)
        i_cr == nv_uv_offset(c, yy) + ux + nv_get_v_position(c.UV_ORDER)
        next == nv_has_next_px(c.SAMPLING, x, c.width)
        dst_offset == yy * c.bgra_stride
        channels == get_channels_count(c.DESTINATION_CHANNELS)
    IN  store_rgbx(next,
            store_rgbx(TRUE,
                [s EXCEPT !.rdy = @ \cup {<<yy, y_offset + x>>}
                                    \cup (IF next THEN {<<yy, y_offset + x + 1>>} ELSE {}),
                          !.rdu = @ \cup {<<yy, i_cb>>, <<yy, i_cr>>}],
                yy, dst_offset + x * channels, c.DESTINATION_CHANNELS,
                inverse_pixel(t, rng, PRECISION_NV, 255, Load(y_plane, y_offset + x),
                              Load(uv_plane, i_cb), Load(uv_plane, i_cr)), 255),
            yy, dst_offset + (x + 1) * channels, c.DESTINATION_CHANNELS,
            inverse_pixel(t, rng, PRECISION_NV, 255, Load(y_plane, y_offset + x + 1),
                          Load(uv_plane, i_cb), Load(uv_plane, i_cr)), 255)

RECURSIVE yuv_nv12_to_rgbx_row(_, _, _, _, _, _, _)
yuv_nv12_to_rgbx_row(c, t, rng, yy, x, ux, s) ==
    IF x >= c.width THEN s
    ELSE yuv_nv12_to_rgbx_row(c, t, rng, yy, x + iterator_step(c.SAMPLING), nv_next_ux(ux),
                              yuv_nv12_to_rgbx_pixel(c, t, rng, yy, x, ux, s))

\* everything before the row iterator: the transform panics when kg = 0
YuvNv12ToRgbxEnter ==
    /\ call.kernel = "yuv_nv12_to_rgbx"
    /\ status = "called"
    /\ status' = IF nv_inverse_transforms[call.range][call.matrix].fails THEN "panic"
                 ELSE IF nv_rows(call) = 0 THEN "ok"
                 ELSE "running"
    /\ UNCHANGED <<call, rgba, y_plane, uv_plane, u_plane, v_plane, yuy2_store, y, rows, off,
                   wr, rd>>

\* one row of the (parallel) row iterator
YuvNv12ToRgbxRow ==
    /\ call.kernel = "yuv_nv12_to_rgbx"
    /\ status = "running"
    /\ \E yy \in (0..(nv_rows(call) - 1)) \ rows :
         LET s == yuv_nv12_to_rgbx_row(call, nv_inverse_transforms[call.range][call.matrix],
                                       get_yuv_range(8, call.range), yy, 0, 0,
                                       [dst |-> rgba, wdst |-> wr.rgba,
                                        rdy |-> rd.y_plane, rdu |-> rd.uv_plane])
         IN  /\ rgba' = s.dst
             /\ wr' = [wr EXCEPT !.rgba = s.wdst]
             /\ rd' = [rd EXCEPT !.y_plane = s.rdy, !.uv_plane = s.rdu]
             /\ rows' = rows \cup {yy}
             /\ status' = IF rows \cup {yy} = 0..(nv_rows(call) - 1) THEN "ok" ELSE "running"
    /\ UNCHANGED <<call, y_plane, uv_plane, u_plane, v_plane, yuy2_store, y, off>>

(***************************************************************************)
(* yuvs/src/yuv422.rs: yuv422_to_rgba, planar 4:2:2 -> RGBA                *)
(***************************************************************************)
PRECISION_422 == 11

\* get_inverse_transform of the yuvs crate: Err when kg = 0, otherwise the
\* coefficients of 4.1 quantized as in 4.2
yuvs_get_inverse_transform(range_bgra, range_y, range_uv, kr, kb, precision) ==
    LET t == get_inverse_transform(range_bgra, range_y, range_uv, kr, kb)
    IN  IF t.fails THEN t ELSE to_integers_inverse(t, precision)

yuv422_inverse_transform(bit_depth, range, matrix) ==
    LET rng == get_yuv_range(bit_depth, range)
        k == get_kr_kb(matrix)
    IN  yuvs_get_inverse_transform(Pow2(bit_depth) - 1, rng.range_y, rng.range_uv,
                                   k.kr, k.kb, PRECISION_422)

yuv422_inverse_transforms ==
    [range \in YuvRange |-> [matrix \in Matrices |-> yuv422_inverse_transform(8, range, matrix)]]

yuv422_stage_after_rows_first(stage) ==
    CASE stage = "check_y" -> "check_u"
      [] stage = "check_u" -> "check_v"
      [] stage = "check_v" -> "transform"
      [] stage = "transform" -> "running"
      [] stage = "running" -> "check_rgb"
      [] stage = "check_rgb" -> "ok"

\* the order of the statements of yuv422_to_rgba
yuv422_stage_after(stage) ==
    CASE stage = "check_y" -> "check_u"
      [] stage = "check_u" -> "check_v"
      [] stage = "check_v" -> "transform"
      [] stage = "transform" -> "check_rgb"
      [] stage = "check_rgb" -> "running"
      [] stage = "running" -> "ok"

\* the early returns
yuv422_fails(stage, c) ==
    CASE stage = "check_y" -> Length(y_plane) # c.y_stride * c.height
      [] stage = "check_u" -> Length(u_plane) # c.u_stride * c.height
      [] stage = "check_v" -> Length(v_plane) # c.v_stride * c.height
      [] stage = "transform" -> yuv422_inverse_transforms[c.range][c.matrix].fails
      [] stage = "check_rgb" -> Length(rgba) # c.width * c.height * 4

\* the zipped chunks_exact iterators stop with the shortest
yuv422_rows(c) ==
    Min(Min(Length(y_plane) \div c.y_stride, Length(u_plane) \div c.u_stride),
        Min(Length(v_plane) \div c.v_stride, Length(rgba) \div (c.width * 4)))

yuv422_pairs_of_row(c) ==
    Min(Min(c.y_stride \div 2, c.u_stride), Min(c.v_stride, (c.width * 4) \div 8))

yuv422_left_of_row(c) ==
    Min(Min(c.y_stride % 2, c.u_stride), Min(c.v_stride, ((c.width * 4) % 8) \div 4))

yuv422_pair(c, t, rng, yy, i, s) ==
    LET i_y == yy * c.y_stride + 2 * i
        i_u == yy * c.u_stride + i
        i_v == yy * c.v_stride + i
        shift == yy * c.width * 4 + 8 * i
        max_value == Pow2(c.bit_depth) - 1
    IN  store_rgbx(TRUE,
            store_rgbx(TRUE,
                [s EXCEPT !.rdy = @ \cup {<<yy, i_y>>, <<yy, i_y + 1>>},
                          !.rdu = @ \cup {<<yy, i_u>>},
                          !.rdv = @ \cup {<<yy, i_v>>}],
                yy, shift, "Rgba",
                inverse_pixel(t, rng, PRECISION_422, max_value, Load(y_plane, i_y),
                              Load(u_plane, i_u), Load(v_plane, i_v)), max_value),
            yy, shift + 4, "Rgba",
            inverse_pixel(t, rng, PRECISION_422, max_value, Load(y_plane, i_y + 1),
                          Load(u_plane, i_u), Load(v_plane, i_v)), max_value)

RECURSIVE yuv422_pairs(_, _, _, _, _, _)
yuv422_pairs(c, t, rng, yy, i, s) ==
    IF i >= yuv422_pairs_of_row(c) THEN s
    ELSE yuv422_pairs(c, t, rng, yy, i + 1, yuv422_pair(c, t, rng, yy, i, s))

\* the left pixel of an odd row: the remainder of the luma row chunk, the
\* last element of each chroma row chunk, the remainder of the rgb row
yuv422_left(c, t, rng, yy, s) ==
    LET i_y == yy * c.y_stride + c.y_stride - 1
        i_u == yy * c.u_stride + c.u_stride - 1
        i_v == yy * c.v_stride + c.v_stride - 1
        max_value == Pow2(c.bit_depth) - 1
    IN  IF yuv422_left_of_row(c) = 0 THEN s
        ELSE store_rgbx(TRUE,
                 [s EXCEPT !.rdy = @ \cup {<<yy, i_y>>},
                           !.rdu = @ \cup {<<yy, i_u>>},
                           !.rdv = @ \cup {<<yy, i_v>>}],
                 yy, yy * c.width * 4 + 8 * ((c.width * 4) \div 8), "Rgba",
                 inverse_pixel(t, rng, PRECISION_422, max_value, Load(y_plane, i_y),
                               Load(u_plane, i_u), Load(v_plane, i_v)), max_value)

\* one statement of the prologue: a length check or the transform
Yuv422ToRgbaCheck ==
    /\ call.kernel = "yuv422_to_rgba"
    /\ status \in {"check_y", "check_u", "check_v", "transform", "check_rgb"}
    /\ status' = IF yuv422_fails(status, call) THEN "err"
                 ELSE IF yuv422_stage_after(status) = "running" /\ yuv422_rows(call) = 0
                 THEN yuv422_stage_after("running")
                 ELSE yuv422_stage_after(status)
    /\ UNCHANGED <<call, rgba, y_plane, uv_plane, u_plane, v_plane, yuy2_store, y, rows, off,
                   wr, rd>>

\* one iteration of the row loop
Yuv422ToRgbaRow ==
    /\ call.kernel = "yuv422_to_rgba"
    /\ status = "running"
    /\ y < yuv422_rows(call)
    /\ LET t == yuv422_inverse_transforms[call.range][call.matrix]
           rng == get_yuv_range(call.bit_depth, call.range)
           s == yuv422_left(call, t, rng, y,
                    yuv422_pairs(call, t, rng, y, 0,
                        [dst |-> rgba, wdst |-> wr.rgba, rdy |-> rd.y_plane,
                         rdu |-> rd.u_plane, rdv |-> rd.v_plane]))
       IN  /\ rgba' = s.dst
           /\ wr' = [wr EXCEPT !.rgba = s.wdst]
           /\ rd' = [rd EXCEPT !.y_plane = s.rdy, !.u_plane = s.rdu, !.v_plane = s.rdv]
    /\ y' = y + 1
    /\ status' = IF y + 1 = yuv422_rows(call) THEN yuv422_stage_after("running") ELSE "running"
    /\ UNCHANGED <<call, y_plane, uv_plane, u_plane, v_plane, yuy2_store, rows, off>>

(***************************************************************************)
(* Inputs of the inverse kernels: images drawn from a palette of (Y, Cb,   *)
(* Cr) triples, strides tight or padded, a destination of height rows or   *)
(* one row short, plane lengths right or one element short; and one-sample *)
(* images whose triple runs over a grid of levels.                         *)
(***************************************************************************)
MaxLevel == 5

Levels ==
    {(255 * k) \div MaxLevel : k \in 0..MaxLevel}

YuvPalette ==
    << <<255, 255, 0>>, <<0, 0, 0>>, <<16, 128, 128>>, <<235, 240, 16>>,
       <<128, 0, 255>>, <<81, 90, 240>>, <<255, 0, 255>>, <<1, 254, 127>> >>

SourceYuv(seed, x, yy) ==
    YuvPalette[((seed + x + 3 * yy) % Len(YuvPalette)) + 1]

\* element i of a luma plane: padding elements are 200
LumaByte(seed, width, stride, i) ==
    IF i % stride >= width THEN 200 ELSE SourceYuv(seed, i % stride, i \div stride)[1]

\* element i of an interleaved chroma plane: padding elements are 50
NvChromaByte(order, sampling, seed, width, stride, i) ==
    LET col == i % stride
        p == SourceYuv(seed, col \div 2, i \div stride)
    IN  IF col >= nv_chroma_row_bytes(sampling, width) THEN 50
        ELSE IF col % 2 = nv_get_u_position(order) THEN p[2] ELSE p[3]

\* element i of a planar chroma plane of chroma_width samples per row
\* (k = 2 for U, 3 for V): padding elements are 50
ChromaByte(k, seed, chroma_width, stride, i) ==
    IF i % stride >= chroma_width THEN 50
    ELSE SourceYuv(seed, i % stride, i \div stride)[k]

Yuv422Defects ==
    {"none", "y_plane", "u_plane", "v_plane", "rgb"}

Short(defect, name) ==
    IF defect = name THEN 1 ELSE 0

\* the arguments of an inverse bi-planar call; each buffer holds `spare` rows
\* more than the height of the image
InitNvImageWith(spare) ==
    \E layout \in ForwardLayouts, sampling \in YuvChromaSample, range \in YuvRange,
       matrix \in Matrices, width \in 1..MaxWidth, height \in 1..MaxHeight,
       pad \in 0..MaxPad, short \in 0..1 :
        LET ch == layout[1]
            y_stride == width + pad
            uv_stride == nv_chroma_row_bytes(sampling, width) + pad
            bgra_stride == width * get_channels_count(ch) + pad
        IN  /\ call = [kernel |-> "yuv_nv12_to_rgbx", DESTINATION_CHANNELS |-> ch,
                       UV_ORDER |-> layout[2], SAMPLING |-> sampling, range |-> range,
                       matrix |-> matrix, width |-> width, height |-> height,
                       y_stride |-> y_stride, uv_stride |-> uv_stride,
                       bgra_stride |-> bgra_stride]
            /\ y_plane = [i \in 0..(y_stride * (height + spare) - 1) |->
                             LumaByte(0, width, y_stride, i)]
            /\ uv_plane = [i \in 0..(uv_stride * chroma_rows(sampling, height + spare) - 1) |->
                              NvChromaByte(layout[2], sampling, 0, width, uv_stride, i)]
            /\ rgba = Buffer(bgra_stride * (height + spare - short), 0)
            /\ u_plane = <<>>
            /\ v_plane = <<>>
            /\ status = "called"

InitNvImage ==
    InitNvImageWith(0)

InitNvSample ==
    \E range \in YuvRange, matrix \in YuvStandardMatrix,
       y_src \in Levels, cb_src \in Levels, cr_src \in Levels :
        /\ call = [kernel |-> "yuv_nv12_to_rgbx", DESTINATION_CHANNELS |-> "Rgb",
                   UV_ORDER |-> "UV", SAMPLING |-> "YUV444", range |-> range,
                   matrix |-> matrix, width |-> 1, height |-> 1,
                   y_stride |-> 1, uv_stride |-> 2, bgra_stride |-> 3]
        /\ y_plane = Buffer(1, y_src)
        /\ uv_plane = [i \in 0..1 |-> IF i = 0 THEN cb_src ELSE cr_src]
        /\ rgba = Buffer(3, 0)
        /\ u_plane = <<>>
        /\ v_plane = <<>>
        /\ status = "called"

InitYuv422Image ==
    \E range \in YuvRange, matrix \in Matrices, width \in 1..MaxWidth,
       height \in 1..MaxHeight, pad \in 0..MaxPad, seed \in 0..MaxSeed,
       defect \in Yuv422Defects :
        LET y_stride == width + pad
            u_stride == DivCeil(width, 2) + pad
        IN  /\ call = [kernel |-> "yuv422_to_rgba", bit_depth |-> 8, range |-> range,
                       matrix |-> matrix, width |-> width, height |-> height,
                       y_stride |-> y_stride, u_stride |-> u_stride, v_stride |-> u_stride]
            /\ y_plane = [i \in 0..(y_stride * height - 1 - Short(defect, "y_plane")) |->
                             LumaByte(seed, width, y_stride, i)]
            /\ u_plane = [i \in 0..(u_stride * height - 1 - Short(defect, "u_plane")) |->
                             ChromaByte(2, seed, DivCeil(width, 2), u_stride, i)]
            /\ v_plane = [i \in 0..(u_stride * height - 1 - Short(defect, "v_plane")) |->
                             ChromaByte(3, seed, DivCeil(width, 2), u_stride, i)]
            /\ rgba = Buffer(width * height * 4 - Short(defect, "rgb"), 0)
            /\ uv_plane = <<>>
            /\ status = "check_y"

InitYuv422Sample ==
    \E range \in YuvRange, matrix \in YuvStandardMatrix,
       y_src \in Levels, cb_src \in Levels, cr_src \in Levels :
        /\ call = [kernel |-> "yuv422_to_rgba", bit_depth |-> 8, range |-> range,
                   matrix |-> matrix, width |-> 2, height |-> 1,
                   y_stride |-> 2, u_stride |-> 1, v_stride |-> 1]
        /\ y_plane = [i \in 0..1 |-> IF i = 0 THEN y_src ELSE 255 - y_src]
        /\ u_plane = Buffer(1, cb_src)
        /\ v_plane = Buffer(1, cr_src)
        /\ rgba = Buffer(8, 0)
        /\ uv_plane = <<>>
        /\ status = "check_y"

InitInverse ==
    /\ InitNvImage \/ InitNvSample \/ InitYuv422Image \/ InitYuv422Sample
    /\ yuy2_store = <<>>
    /\ y = 0
    /\ rows = {}
    /\ off = [y_offset |-> 0, uv_offset |-> 0, rgba_offset |-> 0]
    /\ wr = NoAccess
    /\ rd = NoAccess

NextInverse ==
    \/ YuvNv12ToRgbxEnter
    \/ YuvNv12ToRgbxRow
    \/ Yuv422ToRgbaCheck
    \/ Yuv422ToRgbaRow

SpecInverse ==
    InitInverse /\ [][NextInverse]_vars

(***************************************************************************)
(* Properties of the inverse kernels (SpecInverse).                        *)
(***************************************************************************)
IsNv ==
    call.kernel = "yuv_nv12_to_rgbx"

Is422 ==
    call.kernel = "yuv422_to_rgba"

\* the rows the kernel has converted
DoneRows ==
    IF IsNv THEN rows ELSE 0..(y - 1)

\* columns per chroma sample of the call
ColumnsPerChroma ==
    IF IsNv /\ call.SAMPLING = "YUV444" THEN 1 ELSE 2

InvLuma(x, yy) ==
    y_plane[yy * call.y_stride + x]

\* chroma sample i (k = 2 for Cb, 3 for Cr) that belongs to luma row yy
InvChroma(k, i, yy) ==
    IF IsNv
    THEN uv_plane[(IF call.SAMPLING = "YUV420" THEN yy \div 2 ELSE yy) * call.uv_stride + 2 * i
                  + (IF k = 2 THEN nv_get_u_position(call.UV_ORDER)
                     ELSE nv_get_v_position(call.UV_ORDER))]
    ELSE IF k = 2 THEN u_plane[yy * call.u_stride + i] ELSE v_plane[yy * call.v_stride + i]

\* the stored pixel (x, yy) of the destination
DstPixel(x, yy) ==
    IF IsNv
    THEN LET shift == yy * call.bgra_stride + x * get_channels_count(call.DESTINATION_CHANNELS)
         IN  [r |-> rgba[shift + get_r_channel_offset(call.DESTINATION_CHANNELS)],
              g |-> rgba[shift + get_g_channel_offset(call.DESTINATION_CHANNELS)],
              b |-> rgba[shift + get_b_channel_offset(call.DESTINATION_CHANNELS)]]
    ELSE LET shift == yy * call.width * 4 + x * 4
         IN  [r |-> rgba[shift], g |-> rgba[shift + 1], b |-> rgba[shift + 2]]

InverseTransformOfCall ==
    IF IsNv THEN nv_inverse_transforms[call.range][call.matrix]
    ELSE yuv422_inverse_transforms[call.range][call.matrix]

PrecisionOfCall ==
    IF IsNv THEN PRECISION_NV ELSE PRECISION_422

\* (acc + 2^(P-1)) >> P without saturation, for the sample triple of pixel (x, yy)
Unsaturated(x, yy) ==
    LET t == InverseTransformOfCall
        rng == get_yuv_range(8, call.range)
        p == PrecisionOfCall
        yv == (InvLuma(x, yy) - rng.bias_y) * t.y_coef
        cb == InvChroma(2, x \div ColumnsPerChroma, yy) - rng.bias_uv
        cr == InvChroma(3, x \div ColumnsPerChroma, yy) - rng.bias_uv
    IN  [r |-> (yv + t.cr_coef * cr + Pow2(p - 1)) \div Pow2(p),
         g |-> (yv - t.g_coeff_1 * cr - t.g_coeff_2 * cb + Pow2(p - 1)) \div Pow2(p),
         b |-> (yv + t.cb_coef * cb + Pow2(p - 1)) \div Pow2(p)]

Saturated(v) ==
    IF v < 0 THEN 0 ELSE IF v > 255 THEN 255 ELSE v

\* the columns of a row that belong to a complete pair (all, at 4:4:4 and in
\* the bi-planar kernel, whose last column of an odd width is its own pair)
PairedColumns ==
    IF IsNv THEN 0..(call.width - 1) ELSE 0..(2 * (call.width \div 2) - 1)

\* C2: every R, G and B the inverse kernels store lies in [0, 255] and is the
\* saturated, never the wrapped, value of the rounded fixed-point result
\* (acc + 2^(P-1)) >> P of the pixel's (Y, Cb, Cr) triple, for both ranges
\* and every standard matrix.
C2_InverseSaturated ==
    /\ \A i \in DOMAIN rgba : rgba[i] \in 0..255
    /\ \A yy \in DoneRows : \A x \in PairedColumns :
         /\ DstPixel(x, yy).r = Saturated(Unsaturated(x, yy).r)
         /\ DstPixel(x, yy).g = Saturated(Unsaturated(x, yy).g)
         /\ DstPixel(x, yy).b = Saturated(Unsaturated(x, yy).b)

\* Y = 255, Cb = 255, Cr = 0 under BT.601 Full range: G and B exceed 255
\* before saturation and are stored as 255
C2_Witness ==
    /\ IsNv
    /\ status = "ok"
    /\ call.range = "Full"
    /\ call.matrix = "Bt601"
    /\ 0 \in rows
    /\ InvLuma(0, 0) = 255
    /\ InvChroma(2, 0, 0) = 255
    /\ InvChroma(3, 0, 0) = 0
    /\ Unsaturated(0, 0).g > 255
    /\ Unsaturated(0, 0).b > 255
    /\ DstPixel(0, 0).g = 255
    /\ DstPixel(0, 0).b = 255
    /\ DstPixel(0, 0).r = Unsaturated(0, 0).r

\* the kernel's pixel for luma column x and chroma sample i of row yy
PixelFrom(x, i, yy) ==
    LET p == inverse_pixel(InverseTransformOfCall, get_yuv_range(8, call.range),
                           PrecisionOfCall, 255, InvLuma(x, yy),
                           InvChroma(2, i, yy), InvChroma(3, i, yy))
    IN  [r |-> p.r, g |-> p.g, b |-> p.b]

HalvedChroma ==
    Is422 \/ (IsNv /\ call.SAMPLING \in {"YUV422", "YUV420"})

\* C9: at 4:2:2 and 4:2:0 the output pixels 2i and 2i+1 of a row are both
\* computed from chroma sample i as stored, each with its own luma sample.
C9_PairSharesChromaSample ==
    HalvedChroma =>
        \A yy \in DoneRows : \A i \in 0..((call.width \div 2) - 1) :
            /\ DstPixel(2 * i, yy) = PixelFrom(2 * i, i, yy)
            /\ DstPixel(2 * i + 1, yy) = PixelFrom(2 * i + 1, i, yy)

\* a converted pair whose two luma samples differ, next to a chroma sample
\* that differs: interpolated or re-averaged chroma would give other pixels
C9_Witness ==
    /\ HalvedChroma
    /\ status = "ok"
    /\ \E yy \in DoneRows : \E i \in 0..((call.width \div 2) - 1) :
         /\ 2 * i + 2 < call.width
         /\ InvLuma(2 * i, yy) # InvLuma(2 * i + 1, yy)
         /\ DstPixel(2 * i, yy) # DstPixel(2 * i + 1, yy)
         /\ PixelFrom(2 * i + 1, i + 1, yy) # PixelFrom(2 * i + 1, i, yy)

\* the lengths the entry points are to require
BuffersHold ==
    /\ Length(y_plane) >= call.y_stride * call.height
    /\ IF IsNv
       THEN /\ Length(uv_plane) >= call.uv_stride * chroma_rows(call.SAMPLING, call.height)
            /\ Length(rgba) >= call.bgra_stride * call.height
       ELSE /\ Length(u_plane) >= call.u_stride * call.height
            /\ Length(v_plane) >= call.v_stride * call.height
            /\ Length(rgba) >= call.width * 4 * call.height

\* C5: every entry point checks that each plane and the destination hold at
\* least stride x height elements and fails otherwise: no call with a
\* shorter buffer returns normally (having converted fewer rows).
C5_ShortBufferRejected ==
    status = "ok" => BuffersHold

(***************************************************************************)
(* yuv_p16_ar30.rs: planar 10/12 bit YUV (16-bit words) -> packed 10-bit   *)
(* RGB.  The functions this file imports (to_ne, qrshr, pack,              *)
(* search_inverse_transform, check_constraints, check_rgba_destination)    *)
(* follow sections 4.1, 4.2, 4.5, 4.6 and 7 of the specification; the host *)
(* is little-endian.                                                       *)
(***************************************************************************)
PRECISION_AR30 == 13

AR30_DEPTH == 10

YuvChromaSubsampling == {"Yuv444", "Yuv422", "Yuv420"}

RECURSIVE BitOr(_, _)
BitOr(a, b) ==
    IF a = 0 THEN b
    ELSE IF b = 0 THEN a
    ELSE (IF a % 2 = 1 \/ b % 2 = 1 THEN 1 ELSE 0) + 2 * BitOr(a \div 2, b \div 2)

\* u16::from_be / u16::from_le, then the shift of most-significant-justified words
to_ne(endianness, bytes_position, v, msb) ==
    LET new_v == IF endianness = "BigEndian" THEN (v % 256) * 256 + (v \div 256) ELSE v
    IN  IF bytes_position = "MostSignificantBytes" THEN Shr(new_v, msb) ELSE new_v

\* rounding shift by precision, saturated to [0, 2^bits - 1]
qrshr(precision, bits, v) ==
    Max(Min(Shr(v + Pow2(precision - 1), precision), Pow2(bits) - 1), 0)

search_inverse_transform(precision, bit_depth, range, matrix) ==
    LET rng == get_yuv_range(bit_depth, range)
        k == get_kr_kb(matrix)
        t == get_inverse_transform(Pow2(bit_depth) - 1, rng.range_y, rng.range_uv, k.kr, k.kb)
    IN  IF t.fails THEN t ELSE to_integers_inverse(t, precision)

\* byte k (0 = least significant) of the 32-bit word field << shift
shifted_byte(field, shift, k) ==
    IF shift >= 8 * k
    THEN IF shift - 8 * k >= 8 THEN 0
         ELSE (field % Pow2(8 - (shift - 8 * k))) * Pow2(shift - 8 * k)
    ELSE (field \div Pow2(8 * k - shift)) % 256

\* Rgb30::pack, then to_ne_bytes: the four bytes in memory order
pack(layout, store, r, g, b) ==
    LET byte(k) == IF layout = "Ar30"
                   THEN BitOr(BitOr(shifted_byte(3, 30, k), shifted_byte(b, 20, k)),
                              BitOr(shifted_byte(g, 10, k), shifted_byte(r, 0, k)))
                   ELSE BitOr(BitOr(shifted_byte(r, 22, k), shifted_byte(g, 12, k)),
                              BitOr(shifted_byte(b, 2, k), shifted_byte(3, 0, k)))
    IN  IF store = "Host" THEN <<byte(0), byte(1), byte(2), byte(3)>>
        ELSE <<byte(3), byte(2), byte(1), byte(0)>>

ar30_chroma_height(c) ==
    IF c.SAMPLING = "Yuv420" THEN DivCeil(c.height, 2) ELSE c.height

ar30_chroma_width(c) ==
    IF c.SAMPLING = "Yuv444" THEN c.width ELSE DivCeil(c.width, 2)

\* YuvPlanarImage::check_constraints returns an error
check_constraints_fails(c) ==
    \/ c.width = 0
    \/ c.height = 0
    \/ c.y_stride < c.width
    \/ Length(y_plane) < c.y_stride * c.height
    \/ c.u_stride < ar30_chroma_width(c)
    \/ Length(u_plane) < c.u_stride * ar30_chroma_height(c)
    \/ c.v_stride < ar30_chroma_width(c)
    \/ Length(v_plane) < c.v_stride * ar30_chroma_height(c)

\* check_rgba_destination(rgba, rgba_stride, width, height, 4) returns an error
check_rgba_destination_fails(c) ==
    \/ c.rgba_stride < c.width * 4
    \/ Length(rgba) < c.rgba_stride * c.height

\* the order of the statements of yuv_p16_to_image_ar30_impl and yuv_p16_to_image_ar30
ar30_stage_after(stage) ==
    CASE stage = "bit_depth" -> "check_constraints"
      [] stage = "check_constraints" -> "check_rgba_destination"
      [] stage = "check_rgba_destination" -> "running"
      [] stage = "running" -> "last_row"
      [] stage = "last_row" -> "ok"

\* the result of a statement of the prologue that does not pass
ar30_failure(stage, c) ==
    CASE stage = "bit_depth" -> IF c.bit_depth \in {10, 12} THEN "none" ELSE "panic"
      [] stage = "check_constraints" -> IF check_constraints_fails(c) THEN "err" ELSE "none"
      [] stage = "check_rgba_destination" ->
             IF check_rgba_destination_fails(c) THEN "err" ELSE "none"

\* iterations of the zipped row iterators: whole rows, pairs of rows at 4:2:0
ar30_iterations(c) ==
    LET luma_rows == IF c.SAMPLING = "Yuv420" THEN 2 ELSE 1
    IN  Min(Min(Length(rgba) \div (c.rgba_stride * luma_rows),
                Length(y_plane) \div (c.y_stride * luma_rows)),
            Min(Length(u_plane) \div c.u_stride, Length(v_plane) \div c.v_stride))

\* one pixel: the luma word at i_y, the chroma words at i_u and i_v, the
\* packed pixel stored at shift; bits is the depth qrshr saturates to
ar30_pixel(c, t, rng, bits, i_y, i_u, i_v, shift, yy, s) ==
    LET msb_shift == 16 - c.bit_depth
        y_value == (to_ne(c.ENDIANNESS, c.BYTES_POSITION, Load(y_plane, i_y), msb_shift)
                    - rng.bias_y) * t.y_coef
        cb_value == to_ne(c.ENDIANNESS, c.BYTES_POSITION, Load(u_plane, i_u), msb_shift)
                    - rng.bias_uv
        cr_value == to_ne(c.ENDIANNESS, c.BYTES_POSITION, Load(v_plane, i_v), msb_shift)
                    - rng.bias_uv
        pixel0 == pack(c.AR30_LAYOUT, c.store_type,
                       qrshr(PRECISION_AR30, bits, y_value + t.cr_coef * cr_value),
                       qrshr(PRECISION_AR30, bits,
                             y_value - t.g_coeff_1 * cr_value - t.g_coeff_2 * cb_value),
                       qrshr(PRECISION_AR30, bits, y_value + t.cb_coef * cb_value))
    IN  [s EXCEPT !.dst = [i \in DOMAIN @ |->
                              IF i \in shift..(shift + 3) THEN pixel0[i - shift + 1] ELSE @[i]],
                  !.wdst = @ \cup {<<yy, i>> : i \in shift..(shift + 3)},
                  !.rdy = @ \cup {<<yy, i_y>>},
                  !.rdu = @ \cup {<<yy, i_u>>},
                  !.rdv = @ \cup {<<yy, i_v>>}]

\* the depth the channels of column x saturate to: AR30_DEPTH for the first
\* pixel of a complete pair of the halved-chroma rows, BIT_DEPTH elsewhere
ar30_bits(c, x) ==
    IF c.SAMPLING # "Yuv444" /\ x % 2 = 0 /\ x + 1 < c.width THEN AR30_DEPTH ELSE c.bit_depth

\* the columns one row iteration converts: the whole row chunks at 4:4:4,
\* the first width columns in process_halved_chroma_row
ar30_columns(c) ==
    IF c.SAMPLING = "Yuv444"
    THEN Min(Min(c.rgba_stride \div 4, c.y_stride), Min(c.u_stride, c.v_stride))
    ELSE c.width

\* columns x, x + 1, ... of the rows r.y, r.u, r.v into the row r.dst
RECURSIVE ar30_row(_, _, _, _, _, _)
ar30_row(c, t, rng, r, x, s) ==
    IF x >= ar30_columns(c) THEN s
    ELSE ar30_row(c, t, rng, r, x + 1,
                  ar30_pixel(c, t, rng, ar30_bits(c, x),
                             r.y * c.y_stride + x,
                             r.u * c.u_stride + (IF c.SAMPLING = "Yuv444" THEN x ELSE x \div 2),
                             r.v * c.v_stride + (IF c.SAMPLING = "Yuv444" THEN x ELSE x \div 2),
                             r.dst * c.rgba_stride + 4 * x, r.dst, s))

\* the stage to continue with: a loop without iterations and the last row
\* of an even height or of another sampling are passed over
ar30_skip(stage, c) ==
    LET s1 == IF stage = "running" /\ ar30_iterations(c) = 0
              THEN ar30_stage_after(stage) ELSE stage
    IN  IF s1 = "last_row" /\ ~(c.SAMPLING = "Yuv420" /\ c.height % 2 = 1)
        THEN ar30_stage_after(s1) ELSE s1

\* one statement of the prologue: the bit depth dispatch or a check
YuvP16ToAr30Check ==
    /\ call.kernel = "yuv_p16_to_image_ar30"
    /\ status \in {"bit_depth", "check_constraints", "check_rgba_destination"}
    /\ status' = IF ar30_failure(status, call) # "none" THEN ar30_failure(status, call)
                 ELSE ar30_skip(ar30_stage_after(status), call)
    /\ UNCHANGED <<call, rgba, y_plane, uv_plane, u_plane, v_plane, yuy2_store, y, rows, off,
                   wr, rd>>

\* one iteration of the row iterator: a row, at 4:2:0 two rows with one chroma row
YuvP16ToAr30Row ==
    /\ call.kernel = "yuv_p16_to_image_ar30"
    /\ status = "running"
    /\ y < ar30_iterations(call)
    /\ LET t == search_inverse_transform(PRECISION_AR30, call.bit_depth, call.range,
                                         call.matrix)
           rng == get_yuv_range(call.bit_depth, call.range)
           s0 == [dst |-> rgba, wdst |-> wr.rgba, rdy |-> rd.y_plane,
                  rdu |-> rd.u_plane, rdv |-> rd.v_plane]
           s == IF call.SAMPLING = "Yuv420"
                THEN ar30_row(call, t, rng, [dst |-> 2 * y + 1, y |-> 2 * y + 1, u |-> y, v |-> y],
                              0,
                              ar30_row(call, t, rng,
                                       [dst |-> 2 * y, y |-> 2 * y, u |-> y, v |-> y], 0, s0))
                ELSE ar30_row(call, t, rng, [dst |-> y, y |-> y, u |-> y, v |-> y], 0, s0)
       IN  /\ rgba' = s.dst
           /\ wr' = [wr EXCEPT !.rgba = s.wdst]
           /\ rd' = [rd EXCEPT !.y_plane = s.rdy, !.u_plane = s.rdu, !.v_plane = s.rdv]
    /\ y' = y + 1
    /\ status' = IF y + 1 = ar30_iterations(call)
                 THEN ar30_skip(ar30_stage_after("running"), call) ELSE "running"
    /\ UNCHANGED <<call, y_plane, uv_plane, u_plane, v_plane, yuy2_store, rows, off>>

\* the last row of an odd height at 4:2:0: the last whole row chunk of each buffer
YuvP16ToAr30LastRow ==
    /\ call.kernel = "yuv_p16_to_image_ar30"
    /\ status = "last_row"
    /\ LET t == search_inverse_transform(PRECISION_AR30, call.bit_depth, call.range,
                                         call.matrix)
           s == ar30_row(call, t, get_yuv_range(call.bit_depth, call.range),
                         [dst |-> Length(rgba) \div call.rgba_stride - 1,
                          y |-> Length(y_plane) \div call.y_stride - 1,
                          u |-> Length(u_plane) \div call.u_stride - 1,
                          v |-> Length(v_plane) \div call.v_stride - 1], 0,
                         [dst |-> rgba, wdst |-> wr.rgba, rdy |-> rd.y_plane,
                          rdu |-> rd.u_plane, rdv |-> rd.v_plane])
       IN  /\ rgba' = s.dst
           /\ wr' = [wr EXCEPT !.rgba = s.wdst]
           /\ rd' = [rd EXCEPT !.y_plane = s.rdy, !.u_plane = s.rdu, !.v_plane = s.rdv]
    /\ status' = ar30_stage_after("last_row")
    /\ UNCHANGED <<call, y_plane, uv_plane, u_plane, v_plane, yuy2_store, y, rows, off>>

(***************************************************************************)
(* Calls that may fail: yuv422_to_rgba and the AR30 conversion with plane  *)
(* lengths right or one element short, bit depths 8, 9, 10 and 12.        *)
(***************************************************************************)
Ar30Cases ==
    {<<"Ar30", "Host", "LittleEndian", "LeastSignificantBytes", "Bt601">>,
     <<"Ra30", "Network", "BigEndian", "MostSignificantBytes", "Bt709">>,
     <<"Ar30", "Network", "LittleEndian", "MostSignificantBytes", "Smpte240">>,
     <<"Ra30", "Host", "BigEndian", "LeastSignificantBytes", "Bt470_6">>}

Ar30Defects ==
    {"none", "y_plane", "u_plane", "v_plane", "rgba"}

\* the 16-bit word that stores the sample level of an 8-bit palette value
StoredWord(endianness, bytes_position, bit_depth, level) ==
    LET v == level * Pow2(bit_depth - 8) + (level % Pow2(bit_depth - 8))
        w == IF bytes_position = "MostSignificantBytes" THEN v * Pow2(16 - bit_depth) ELSE v
    IN  IF endianness = "BigEndian" THEN (w % 256) * 256 + (w \div 256) ELSE w

InitAr30Image ==
    \E case \in Ar30Cases, sampling \in YuvChromaSubsampling, bit_depth \in {8, 9, 10, 12},
       width \in 1..MaxWidth, height \in 1..MaxHeight, pad \in 0..MaxPad,
       defect \in Ar30Defects :
        LET chroma_width == IF sampling = "Yuv444" THEN width ELSE DivCeil(width, 2)
            chroma_height == IF sampling = "Yuv420" THEN DivCeil(height, 2) ELSE height
            y_stride == width + pad
            u_stride == chroma_width + pad
            rgba_stride == 4 * width + pad
        IN  /\ call = [kernel |-> "yuv_p16_to_image_ar30", AR30_LAYOUT |-> case[1],
                       store_type |-> case[2], SAMPLING |-> sampling, ENDIANNESS |-> case[3],
                       BYTES_POSITION |-> case[4], bit_depth |-> bit_depth, range |-> "Full",
                       matrix |-> case[5], width |-> width, height |-> height,
                       y_stride |-> y_stride, u_stride |-> u_stride, v_stride |-> u_stride,
                       rgba_stride |-> rgba_stride]
            /\ y_plane = [i \in 0..(y_stride * height - 1 - Short(defect, "y_plane")) |->
                             IF i % y_stride >= width THEN 0
                             ELSE StoredWord(case[3], case[4], bit_depth,
                                             SourceYuv(0, i % y_stride, i \div y_stride)[1])]
            /\ u_plane = [i \in 0..(u_stride * chroma_height - 1 - Short(defect, "u_plane")) |->
                             IF i % u_stride >= chroma_width THEN 0
                             ELSE StoredWord(case[3], case[4], bit_depth,
                                             SourceYuv(0, i % u_stride, i \div u_stride)[2])]
            /\ v_plane = [i \in 0..(u_stride * chroma_height - 1 - Short(defect, "v_plane")) |->
                             IF i % u_stride >= chroma_width THEN 0
                             ELSE StoredWord(case[3], case[4], bit_depth,
                                             SourceYuv(0, i % u_stride, i \div u_stride)[3])]
            /\ rgba = Buffer(rgba_stride * height - Short(defect, "rgba"), 0)
            /\ uv_plane = <<>>
            /\ status = "bit_depth"

InitEntry ==
    /\ InitYuv422Image \/ InitAr30Image
    /\ yuy2_store = <<>>
    /\ y = 0
    /\ rows = {}
    /\ off = [y_offset |-> 0, uv_offset |-> 0, rgba_offset |-> 0]
    /\ wr = NoAccess
    /\ rd = NoAccess

NextEntry ==
    \/ Yuv422ToRgbaCheck
    \/ Yuv422ToRgbaRow
    \/ YuvP16ToAr30Check
    \/ YuvP16ToAr30Row
    \/ YuvP16ToAr30LastRow

SpecEntry ==
    InitEntry /\ [][NextEntry]_vars

\* C4: whenever a conversion call fails (a buffer length mismatch, a
\* degenerate matrix, an unsupported bit depth), every failing check was
\* evaluated before the first pixel write: no element of the destination
\* has been written or changed.
C4_FailureLeavesDestination ==
    status \in {"err", "panic"} =>
        /\ wr.rgba = {}
        /\ \A i \in DOMAIN rgba : rgba[i] = 0

\* a call of yuv422_to_rgba that passes the three plane checks and the
\* transform and fails the last check, that of the destination length
C4_Witness ==
    /\ Is422
    /\ status = "err"
    /\ call.height > 1
    /\ call.matrix \in YuvStandardMatrix
    /\ Length(y_plane) = call.y_stride * call.height
    /\ Length(u_plane) = call.u_stride * call.height
    /\ Length(v_plane) = call.v_stride * call.height
    /\ Length(rgba) < call.width * 4 * call.height
    /\ wr.rgba = {}

(***************************************************************************)
(* Round trip: rgbx_to_nv, then yuv_nv12_to_rgbx on the planes it wrote,   *)
(* with the same range and matrix, into a fresh buffer.  The pixel runs    *)
(* over a grid of shades; the call record keeps the original as origin.    *)
(***************************************************************************)
MaxShade == 20

Shades ==
    {(255 * k) \div MaxShade : k \in 0..MaxShade}

InitRoundTrip ==
    \E r \in Shades, g \in Shades, b \in Shades :
        /\ call = [kernel |-> "rgbx_to_nv", ORIGIN_CHANNELS |-> "Rgb", UV_ORDER |-> "UV",
                   SAMPLING |-> "YUV444", range |-> "Full", matrix |-> "Bt601",
                   width |-> 1, height |-> 1, y_stride |-> 1, uv_stride |-> 2,
                   rgba_stride |-> 3, seed |-> 0]
        /\ rgba = [i \in 0..2 |-> IF i = 0 THEN r ELSE IF i = 1 THEN g ELSE b]
        /\ y_plane = Buffer(1, 0)
        /\ uv_plane = Buffer(2, 0)
        /\ u_plane = <<>>
        /\ v_plane = <<>>
        /\ yuy2_store = <<>>
        /\ y = 0
        /\ rows = {}
        /\ off = [y_offset |-> 0, uv_offset |-> 0, rgba_offset |-> 0]
        /\ status = "running"
        /\ wr = NoAccess
        /\ rd = NoAccess

\* the inverse call on the output of the returned forward call
RoundTripInverse ==
    /\ call.kernel = "rgbx_to_nv"
    /\ status = "ok"
    /\ call' = [kernel |-> "yuv_nv12_to_rgbx", DESTINATION_CHANNELS |-> call.ORIGIN_CHANNELS,
                UV_ORDER |-> call.UV_ORDER, SAMPLING |-> call.SAMPLING,
                range |-> call.range, matrix |-> call.matrix,
                width |-> call.width, height |-> call.height,
                y_stride |-> call.y_stride, uv_stride |-> call.uv_stride,
                bgra_stride |-> call.rgba_stride, origin |-> rgba]
    /\ rgba' = Buffer(Length(rgba), 0)
    /\ status' = "called"
    /\ y' = 0
    /\ rows' = {}
    /\ wr' = NoAccess
    /\ rd' = NoAccess
    /\ UNCHANGED <<y_plane, uv_plane, u_plane, v_plane, yuy2_store, off>>

NextRoundTrip ==
    \/ RgbxToNvRow
    \/ RoundTripInverse
    \/ YuvNv12ToRgbxEnter
    \/ YuvNv12ToRgbxRow

SpecRoundTrip ==
    InitRoundTrip /\ [][NextRoundTrip]_vars

RoundTripDone ==
    IsNv /\ status = "ok"

\* C3: for an 8-bit RGB pixel, forward conversion with Full range, BT.601,
\* 4:4:4 followed by the inverse conversion with the same range and matrix
\* gives rgb' with |rgb' - rgb| <= 2 in each of the three channels.
C3_RoundTripWithinTwo ==
    RoundTripDone =>
        \A i \in 0..2 : rgba[i] - call.origin[i] \in -2..2

\* a pixel whose round trip is off by exactly 2 in a channel
C3_Witness ==
    /\ RoundTripDone
    /\ \E i \in 0..2 : Abs(rgba[i] - call.origin[i]) = 2

(***************************************************************************)
(* yuv_to_yuy2.rs, yuy2_to_yuv.rs: planar YUV <-> packed 4:2:2             *)
(***************************************************************************)
Yuy2Description == {"YUYV", "UYVY", "YVYU", "VYUY"}

yuy2_get_u_position(target) ==
    CASE target = "YUYV" -> 1 [] target = "UYVY" -> 0 [] target = "YVYU" -> 3 [] target = "VYUY" -> 2

yuy2_get_v_position(target) ==
    CASE target = "YUYV" -> 3 [] target = "UYVY" -> 2 [] target = "YVYU" -> 1 [] target = "VYUY" -> 0

yuy2_get_first_y_position(target) ==
    CASE target = "YUYV" -> 0 [] target = "UYVY" -> 1 [] target = "YVYU" -> 0 [] target = "VYUY" -> 1

yuy2_get_second_y_position(target) ==
    CASE target = "YUYV" -> 2 [] target = "UYVY" -> 3 [] target = "YVYU" -> 2 [] target = "VYUY" -> 3

\* faulty variant of yuy2_uv_step: one chroma column per group at 4:4:4 too
yuy2_uv_step_single(sampling) ==
    1

\* the advance of _uv_x after one packed group
yuy2_uv_step(sampling) ==
    IF sampling = "YUV444" THEN 2 ELSE 1

\* faulty variant of yuv_to_yuy2_average: the average without the + 1
yuv_to_yuy2_average_truncating(a, b) ==
    AsU8(Shr(a + b, 1))

\* the chroma of one packed group at 4:4:4: (((a + b) + 1) >> 1) as u8
yuv_to_yuy2_average(a, b) ==
    AsU8(Shr((a + b) + 1, 1))

\* the four stores of one packed group at dst_offset
store_yuy2(s, yy, dst_offset, target, first_y, u_value, second_y, v_value) ==
    [s EXCEPT !.dst = Store(Store(Store(Store(@,
                          dst_offset + yuy2_get_first_y_position(target), first_y),
                          dst_offset + yuy2_get_u_position(target), u_value),
                          dst_offset + yuy2_get_second_y_position(target), second_y),
                          dst_offset + yuy2_get_v_position(target), v_value),
              !.wdst = @ \cup {<<yy, dst_offset + k>> : k \in 0..3}]

yuv_to_yuy2_chroma_offset_every_row(sampling, yy, stride) ==
    yy * stride

\* u_offset / v_offset of packed row yy
yuv_to_yuy2_chroma_offset(sampling, yy, stride) ==
    IF sampling = "YUV420" THEN Shr(yy, 1) * stride ELSE yy * stride

\* the pair loop from group x on, then the last group of an odd width
RECURSIVE yuv_to_yuy2_row(_, _, _, _, _, _)
yuv_to_yuy2_row(c, yy, x, cx, uv_x, s) ==
    LET u_pos == yuv_to_yuy2_chroma_offset(c.SAMPLING, yy, c.u_stride) + uv_x
        v_pos == yuv_to_yuy2_chroma_offset(c.SAMPLING, yy, c.v_stride) + uv_x
        y_pos == yy * c.y_stride + cx
        base == yy * c.yuy2_stride
    IN  IF x < c.width \div 2
        THEN yuv_to_yuy2_row(c, yy, x + 1, cx + 2, uv_x + yuy2_uv_step(c.SAMPLING),
                 store_yuy2(
                     [s EXCEPT !.rdy = @ \cup {<<yy, y_pos>>, <<yy, y_pos + 1>>},
                               !.rdu = @ \cup {<<yy, u_pos>>}
                                         \cup (IF c.SAMPLING = "YUV444"
                                               THEN {<<yy, u_pos + 1>>} ELSE {}),
                               !.rdv = @ \cup {<<yy, v_pos>>}
                                         \cup (IF c.SAMPLING = "YUV444"
                                               THEN {<<yy, v_pos + 1>>} ELSE {})],
                     yy, base + x * 4, c.YUY2_TARGET,
                     Load(y_plane, y_pos),
                     IF c.SAMPLING = "YUV444"
                     THEN yuv_to_yuy2_average(Load(u_plane, u_pos), Load(u_plane, u_pos + 1))
                     ELSE Load(u_plane, u_pos),
                     Load(y_plane, y_pos + 1),
                     IF c.SAMPLING = "YUV444"
                     THEN yuv_to_yuy2_average(Load(v_plane, v_pos), Load(v_plane, v_pos + 1))
                     ELSE Load(v_plane, v_pos)))
        ELSE IF c.width % 2 = 1
        THEN store_yuy2(
                 [s EXCEPT !.rdy = @ \cup {<<yy, y_pos>>},
                           !.rdu = @ \cup {<<yy, u_pos>>},
                           !.rdv = @ \cup {<<yy, v_pos>>}],
                 yy, base + ((c.width - 1) \div 2) * 4, c.YUY2_TARGET,
                 Load(y_plane, y_pos), Load(u_plane, u_pos), 0, Load(v_plane, v_pos))
        ELSE s

\* the length of dst_store, the row chunk from the last group of an odd
\* width on; 4 when the width is even
yuv_to_yuy2_tail_room(c) ==
    IF c.width % 2 = 1 THEN c.yuy2_stride - ((c.width - 1) \div 2) * 4 ELSE 4

\* get_unchecked_mut past the end of dst_store is undefined behaviour: the
\* store lands at its address, or (a build with the unsafe-precondition
\* checks) the call aborts there.  The slots of the last group stored before
\* such an abort, in the order first luma, U, second luma, V
yuv_to_yuy2_tail_prefix(c, tail) ==
    LET order == <<yuy2_get_first_y_position(c.YUY2_TARGET),
                   yuy2_get_u_position(c.YUY2_TARGET),
                   yuy2_get_second_y_position(c.YUY2_TARGET),
                   yuy2_get_v_position(c.YUY2_TARGET)>>
    IN  {tail + order[k] : k \in {n \in 1..4 :
                             \A j \in 1..n : order[j] < yuv_to_yuy2_tail_room(c)}}

\* the packed buffer is cut into whole rows of yuy2_stride bytes; height is not used
yuv_to_yuy2_rows(c) ==
    Length(yuy2_store) \div c.yuy2_stride

\* one row of the (parallel) row iterator of yuv_to_yuy2_impl
YuvToYuy2Row ==
    /\ call.kernel = "yuv_to_yuy2"
    /\ status = "running"
    /\ \E yy \in (0..(yuv_to_yuy2_rows(call) - 1)) \ rows :
         LET s == yuv_to_yuy2_row(call, yy, 0, 0, 0,
                      [dst |-> yuy2_store, wdst |-> wr.yuy2_store, rdy |-> rd.y_plane,
                       rdu |-> rd.u_plane, rdv |-> rd.v_plane])
             tail == yy * call.yuy2_stride + ((call.width - 1) \div 2) * 4
             refused == {tail + k : k \in 0..3} \ yuv_to_yuy2_tail_prefix(call, tail)
         IN  \/ /\ yuy2_store' = s.dst
                /\ wr' = [wr EXCEPT !.yuy2_store = s.wdst]
                /\ rd' = [rd EXCEPT !.y_plane = s.rdy, !.u_plane = s.rdu, !.v_plane = s.rdv]
                /\ rows' = rows \cup {yy}
                /\ status' = IF rows \cup {yy} = 0..(yuv_to_yuy2_rows(call) - 1)
                             THEN "ok" ELSE "running"
             \/ /\ yuv_to_yuy2_tail_room(call) < 4
                /\ yuy2_store' = [i \in DOMAIN yuy2_store |->
                                     IF i \in refused THEN yuy2_store[i] ELSE s.dst[i]]
                /\ wr' = [wr EXCEPT !.yuy2_store =
                              {a \in s.wdst : a[1] # yy \/ a[2] \notin refused}]
                /\ rd' = [rd EXCEPT !.y_plane = s.rdy, !.u_plane = s.rdu, !.v_plane = s.rdv]
                /\ rows' = rows
                /\ status' = "panic"
    /\ UNCHANGED <<call, rgba, y_plane, uv_plane, u_plane, v_plane, y, off>>

\* the pair loop of yuy2_to_yuv_impl from group x on, then the last group of
\* an odd width
RECURSIVE yuy2_to_yuv_row(_, _, _, _, _, _, _)
yuy2_to_yuv_row(c, o, yy, x, cx, uv_x, s) ==
    LET u_pos == o.u_offset + uv_x
        v_pos == o.v_offset + uv_x
        y_pos == o.y_offset + cx
        pair == x < c.width \div 2
        yuy2_offset == IF pair THEN o.yuy_offset + x * 4
                       ELSE o.yuy_offset + ((c.width - 1) \div 2) * 4
        first_y_position == Load(yuy2_store, yuy2_offset + yuy2_get_first_y_position(c.YUY2_TARGET))
        second_y_position == Load(yuy2_store, yuy2_offset + yuy2_get_second_y_position(c.YUY2_TARGET))
        u_value == Load(yuy2_store, yuy2_offset + yuy2_get_u_position(c.YUY2_TARGET))
        v_value == Load(yuy2_store, yuy2_offset + yuy2_get_v_position(c.YUY2_TARGET))
        twice == c.SAMPLING = "YUV444"
    IN  IF pair
        THEN yuy2_to_yuv_row(c, o, yy, x + 1, cx + 2, uv_x + yuy2_uv_step(c.SAMPLING),
                 [s EXCEPT
                    !.yp = Store(Store(@, y_pos, first_y_position), y_pos + 1, second_y_position),
                    !.up = IF twice THEN Store(Store(@, u_pos, u_value), u_pos + 1, u_value)
                           ELSE Store(@, u_pos, u_value),
                    !.vp = IF twice THEN Store(Store(@, v_pos, v_value), v_pos + 1, v_value)
                           ELSE Store(@, v_pos, v_value),
                    !.wy = @ \cup {<<yy, y_pos>>, <<yy, y_pos + 1>>},
                    !.wu = @ \cup {<<yy, u_pos>>} \cup (IF twice THEN {<<yy, u_pos + 1>>} ELSE {}),
                    !.wv = @ \cup {<<yy, v_pos>>} \cup (IF twice THEN {<<yy, v_pos + 1>>} ELSE {}),
                    !.rds = @ \cup {<<yy, yuy2_offset + k>> : k \in 0..3}])
        ELSE IF c.width % 2 = 1
        THEN [s EXCEPT
                !.yp = Store(@, y_pos, first_y_position),
                !.up = Store(@, u_pos, u_value),
                !.vp = Store(@, v_pos, v_value),
                !.wy = @ \cup {<<yy, y_pos>>},
                !.wu = @ \cup {<<yy, u_pos>>},
                !.wv = @ \cup {<<yy, v_pos>>},
                !.rds = @ \cup {<<yy, yuy2_offset + yuy2_get_first_y_position(c.YUY2_TARGET)>>,
                                <<yy, yuy2_offset + yuy2_get_u_position(c.YUY2_TARGET)>>,
                                <<yy, yuy2_offset + yuy2_get_v_position(c.YUY2_TARGET)>>}]
        ELSE s

\* faulty variant of yuy2_to_yuv_next_offsets: at 4:2:0 chroma advances
\* after the even rows
yuy2_to_yuv_next_offsets_after_even(c, o, yy) ==
    [y_offset |-> o.y_offset + c.y_stride,
     yuy_offset |-> o.yuy_offset + c.yuy2_stride,
     u_offset |-> IF c.SAMPLING = "YUV420" /\ yy % 2 = 1 THEN o.u_offset
                  ELSE o.u_offset + c.u_stride,
     v_offset |-> IF c.SAMPLING = "YUV420" /\ yy % 2 = 1 THEN o.v_offset
                  ELSE o.v_offset + c.v_stride]

\* faulty variant of yuy2_to_yuv_next_offsets: chroma advances after odd
\* rows at every sampling
yuy2_to_yuv_next_offsets_halved(c, o, yy) ==
    [y_offset |-> o.y_offset + c.y_stride,
     yuy_offset |-> o.yuy_offset + c.yuy2_stride,
     u_offset |-> IF yy % 2 = 0 THEN o.u_offset ELSE o.u_offset + c.u_stride,
     v_offset |-> IF yy % 2 = 0 THEN o.v_offset ELSE o.v_offset + c.v_stride]

\* the offsets after row yy: chroma advances after every row, at 4:2:0 after odd rows
yuy2_to_yuv_next_offsets(c, o, yy) ==
    [y_offset |-> o.y_offset + c.y_stride,
     yuy_offset |-> o.yuy_offset + c.yuy2_stride,
     u_offset |-> IF c.SAMPLING = "YUV420" /\ yy % 2 = 0 THEN o.u_offset
                  ELSE o.u_offset + c.u_stride,
     v_offset |-> IF c.SAMPLING = "YUV420" /\ yy % 2 = 0 THEN o.v_offset
                  ELSE o.v_offset + c.v_stride]

\* one iteration of `for y in 0..height` of yuy2_to_yuv_impl
Yuy2ToYuvRow ==
    /\ call.kernel = "yuy2_to_yuv"
    /\ status = "running"
    /\ y < call.height
    /\ LET s == yuy2_to_yuv_row(call, off, y, 0, 0, 0,
                    [yp |-> y_plane, up |-> u_plane, vp |-> v_plane, wy |-> wr.y_plane,
                     wu |-> wr.u_plane, wv |-> wr.v_plane, rds |-> rd.yuy2_store])
       IN  /\ y_plane' = s.yp
           /\ u_plane' = s.up
           /\ v_plane' = s.vp
           /\ wr' = [wr EXCEPT !.y_plane = s.wy, !.u_plane = s.wu, !.v_plane = s.wv]
           /\ rd' = [rd EXCEPT !.yuy2_store = s.rds]
    /\ off' = yuy2_to_yuv_next_offsets(call, off, y)
    /\ y' = y + 1
    /\ status' = IF y + 1 = call.height THEN "ok" ELSE "running"
    /\ UNCHANGED <<call, rgba, uv_plane, yuy2_store, rows>>

(***************************************************************************)
(* Packed round trip: yuv_to_yuy2_impl on planar images of every layout,   *)
(* sampling, width and height, strides tight or padded, then               *)
(* yuy2_to_yuv_impl at the same sampling into fresh planes.  The call      *)
(* record keeps the original planes as origin_y, origin_u, origin_v.       *)
(***************************************************************************)
yuy2_chroma_width(sampling, width) ==
    IF sampling = "YUV444" THEN width ELSE DivCeil(width, 2)

\* the arguments of a planar -> packed call; `missing` is the number of
\* bytes each packed row lacks of the 2 * (width + 1) an odd width needs,
\* and each buffer holds `spare` rows more than the height of the image
InitYuy2With(missing, spare) ==
    \E target \in Yuy2Description, sampling \in YuvChromaSample, width \in 1..MaxWidth,
       height \in 1..MaxHeight, pad \in 0..MaxPad, seed \in 0..MaxSeed :
        LET y_stride == width + pad
            u_stride == yuy2_chroma_width(sampling, width) + pad
            yuy2_stride == 4 * DivCeil(width, 2) + pad - missing
        IN  /\ missing = 0 \/ width % 2 = 1
            /\ call = [kernel |-> "yuv_to_yuy2", YUY2_TARGET |-> target, SAMPLING |-> sampling,
                       width |-> width, height |-> height, y_stride |-> y_stride,
                       u_stride |-> u_stride, v_stride |-> u_stride,
                       yuy2_stride |-> yuy2_stride]
            /\ y_plane = [i \in 0..(y_stride * (height + spare) - 1) |->
                             LumaByte(seed, width, y_stride, i)]
            /\ u_plane = [i \in 0..(u_stride * chroma_rows(sampling, height + spare) - 1) |->
                             ChromaByte(2, seed, yuy2_chroma_width(sampling, width), u_stride, i)]
            /\ v_plane = [i \in 0..(u_stride * chroma_rows(sampling, height + spare) - 1) |->
                             ChromaByte(3, seed, yuy2_chroma_width(sampling, width), u_stride, i)]
            /\ yuy2_store = Buffer(yuy2_stride * (height + spare), 0)
            /\ rgba = <<>>
            /\ uv_plane = <<>>
            /\ y = 0
            /\ rows = {}
            /\ off = [y_offset |-> 0, u_offset |-> 0, v_offset |-> 0, yuy_offset |-> 0]
            /\ status = "running"
            /\ wr = NoAccess
            /\ rd = NoAccess

InitYuy2 ==
    InitYuy2With(0, 0)

\* the call of yuy2_to_yuv_impl on the packed image the returned call wrote
Yuy2RoundTripBack ==
    /\ call.kernel = "yuv_to_yuy2"
    /\ status = "ok"
    /\ call' = [kernel |-> "yuy2_to_yuv", YUY2_TARGET |-> call.YUY2_TARGET,
                SAMPLING |-> call.SAMPLING, width |-> call.width, height |-> call.height,
                y_stride |-> call.y_stride, u_stride |-> call.u_stride,
                v_stride |-> call.v_stride, yuy2_stride |-> call.yuy2_stride,
                origin_y |-> y_plane, origin_u |-> u_plane, origin_v |-> v_plane]
    /\ y_plane' = Buffer(Length(y_plane), 0)
    /\ u_plane' = Buffer(Length(u_plane), 0)
    /\ v_plane' = Buffer(Length(v_plane), 0)
    /\ status' = "running"
    /\ y' = 0
    /\ rows' = {}
    /\ off' = [y_offset |-> 0, u_offset |-> 0, v_offset |-> 0, yuy_offset |-> 0]
    /\ wr' = NoAccess
    /\ rd' = NoAccess
    /\ UNCHANGED <<rgba, uv_plane, yuy2_store>>

NextYuy2 ==
    \/ YuvToYuy2Row
    \/ Yuy2RoundTripBack
    \/ Yuy2ToYuvRow

SpecYuy2 ==
    InitYuy2 /\ [][NextYuy2]_vars

\* the planar -> packed call on packed rows of 2 * width (+ padding) bytes
\* for an odd width
InitYuy2Short ==
    InitYuy2With(2, 0)

SpecYuy2Short ==
    InitYuy2Short /\ [][YuvToYuy2Row]_vars

(***************************************************************************)
(* Properties of the packed kernels (SpecYuy2).                            *)
(***************************************************************************)
Yuy2BackDone ==
    call.kernel = "yuy2_to_yuv" /\ status = "ok"

\* element i of the plane has been stored
Stored(accesses, i) ==
    \E a \in accesses : a[2] = i

\* C10: for each of the four packed layouts, for planar 4:2:0 and 4:2:2
\* input and every width and height, planar -> packed -> planar at the same
\* subsampling stores every Y, U and V sample with its original value.
C10_PackedRoundTripExact ==
    (Yuy2BackDone /\ call.SAMPLING \in {"YUV420", "YUV422"}) =>
        /\ \A yy \in 0..(call.height - 1) : \A x \in 0..(call.width - 1) :
             /\ Stored(wr.y_plane, yy * call.y_stride + x)
             /\ y_plane[yy * call.y_stride + x] = call.origin_y[yy * call.y_stride + x]
        /\ \A yy \in 0..(chroma_rows(call.SAMPLING, call.height) - 1) :
             \A i \in 0..(DivCeil(call.width, 2) - 1) :
               /\ Stored(wr.u_plane, yy * call.u_stride + i)
               /\ Stored(wr.v_plane, yy * call.v_stride + i)
               /\ u_plane[yy * call.u_stride + i] = call.origin_u[yy * call.u_stride + i]
               /\ v_plane[yy * call.v_stride + i] = call.origin_v[yy * call.v_stride + i]

\* a 4:2:0 round trip of odd width and odd height, more than one chroma row,
\* padded strides, and chroma rows that differ
C10_Witness ==
    /\ Yuy2BackDone
    /\ call.SAMPLING = "YUV420"
    /\ call.width % 2 = 1
    /\ call.width > 2
    /\ call.height = 3
    /\ call.y_stride > call.width
    /\ call.origin_u[0] # call.origin_u[call.u_stride]
    /\ u_plane[call.u_stride] = call.origin_u[call.u_stride]
    /\ Stored(wr.u_plane, call.u_stride + call.width \div 2)
    /\ y_plane[2 * call.y_stride + call.width - 1] =
         call.origin_y[2 * call.y_stride + call.width - 1]

(***************************************************************************)
(* Grey sources: rgbx_to_nv on images whose every pixel is R = G = B = k,  *)
(* for every 8-bit k, every standard matrix, both ranges, every sampling.  *)
(***************************************************************************)
GreyLevels ==
    0..255

InitGrey ==
    \E k \in GreyLevels, sampling \in YuvChromaSample, range \in YuvRange,
       matrix \in YuvStandardMatrix, width \in 1..2 :
        /\ call = [kernel |-> "rgbx_to_nv", ORIGIN_CHANNELS |-> "Rgb", UV_ORDER |-> "UV",
                   SAMPLING |-> sampling, range |-> range, matrix |-> matrix,
                   width |-> width, height |-> 1, y_stride |-> width,
                   uv_stride |-> nv_chroma_row_bytes(sampling, width),
                   rgba_stride |-> width * 3, seed |-> k]
        /\ rgba = Buffer(width * 3, k)
        /\ y_plane = Buffer(width, 0)
        /\ uv_plane = Buffer(nv_chroma_row_bytes(sampling, width), 0)
        /\ u_plane = <<>>
        /\ v_plane = <<>>
        /\ yuy2_store = <<>>
        /\ y = 0
        /\ rows = {}
        /\ off = [y_offset |-> 0, uv_offset |-> 0, rgba_offset |-> 0]
        /\ status = "running"
        /\ wr = NoAccess
        /\ rd = NoAccess

NextGrey ==
    RgbxToNvRow

SpecGrey ==
    InitGrey /\ [][NextGrey]_vars

\* C11: for every k in [0, 255], every standard matrix and both ranges, the
\* 8-bit forward transform of the grey pixel R = G = B = k stores
\* Cb = Cr = 128 exactly.
C11_GreyIsNeutral ==
    ForwardDone =>
        \A i \in 0..(nv_chroma_row_bytes(call.SAMPLING, call.width) \div 2 - 1) :
            CbAt(i, 0) = 128 /\ CrAt(i, 0) = 128

\* the stores into one destination while different rows were processed hit
\* different elements
RowsDisjoint(accesses) ==
    \A a \in accesses : \A b \in accesses : a[2] = b[2] => a[1] = b[1]

\* C12: in every conversion the set of destination locations written while
\* processing image row i is disjoint from the set written while processing
\* any other row j (so that the output does not depend on the row order).
C12_RowWritesDisjoint ==
    /\ RowsDisjoint(wr.rgba)
    /\ RowsDisjoint(wr.y_plane)
    /\ RowsDisjoint(wr.uv_plane)
    /\ RowsDisjoint(wr.u_plane)
    /\ RowsDisjoint(wr.v_plane)
    /\ RowsDisjoint(wr.yuy2_store)

(***************************************************************************)
(* neon/rgba_to_yuv.rs: neon_rgba_to_yuv, the vector row kernel of the     *)
(* planar forward conversion, 16 pixels for each turn of its loop          *)
(***************************************************************************)
MaxBlocks == 2
MaxTail == 2

\* the 16-bit lane holding the low half of a 32-bit lane, as a signed value
AsI16(v) ==
    LET m == v % 65536
    IN  IF m >= 32768 THEN m - 65536 ELSE m

\* vshrn_n_s32::<PRECISION>: shift right and narrow to 16 bits
vshrn_n_s32(v, n) ==
    AsI16(Shr(v, n))

\* vqmovn_u16(vminq_u16(vreinterpretq_u16_s16(vmaxq_s16(v, lo)), cap))
neon_narrow(v, lo, cap) ==
    Min(Min(Max(v, lo) % 65536, cap), 255)

\* one luma lane: vmlal_s16 from y_bias, vmaxq_s32 with 0, shift, clamp
neon_luma_lane(c, t, rng, r, g, b) ==
    LET bias_y == rng.bias_y * Pow2(c.PRECISION) + Pow2(c.PRECISION - 1)
        acc == Max(bias_y + r * t.yr + g * t.yg + b * t.yb, 0)
    IN  neon_narrow(vshrn_n_s32(acc, c.PRECISION), AsI16(rng.bias_y),
                    rng.range_y + rng.bias_y)

\* one chroma lane with coefficients k = <<k_r, k_g, k_b>>
neon_chroma_lane(c, rng, k, r, g, b) ==
    LET bias_uv == rng.bias_uv * Pow2(c.PRECISION) + Pow2(c.PRECISION - 1)
        acc == bias_uv + r * k[1] + g * k[2] + b * k[3]
    IN  neon_narrow(vshrn_n_s32(acc, c.PRECISION), AsI16(rng.bias_y),
                    rng.bias_y + rng.range_uv)

\* vrshrn_n_u16::<1>(vpaddlq_u8(v)): the rounded mean of two adjacent lanes
neon_pairwise(c0, c1) ==
    Shr(c0 + c1 + 1, 1) % 256

\* channel k (0 = R, 1 = G, 2 = B) of the pixel at column x: vld3q_u8 / vld4q_u8
neon_load(c, src, x, k) ==
    LET ch == c.ORIGIN_CHANNELS
        o == IF k = 0 THEN get_r_channel_offset(ch)
             ELSE IF k = 1 THEN get_g_channel_offset(ch)
             ELSE get_b_channel_offset(ch)
    IN  Load(src, c.rgba_offset + x * get_channels_count(ch) + o)

neon_y(c, t, rng, src, x) ==
    neon_luma_lane(c, t, rng, neon_load(c, src, x, 0), neon_load(c, src, x, 1),
                   neon_load(c, src, x, 2))

neon_cb(c, t, rng, src, x) ==
    neon_chroma_lane(c, rng, <<t.cb_r, t.cb_g, t.cb_b>>, neon_load(c, src, x, 0),
                     neon_load(c, src, x, 1), neon_load(c, src, x, 2))

neon_cr(c, t, rng, src, x) ==
    neon_chroma_lane(c, rng, <<t.cr_r, t.cr_g, t.cr_b>>, neon_load(c, src, x, 0),
                     neon_load(c, src, x, 1), neon_load(c, src, x, 2))

\* the chroma lanes one turn stores and the step of ux
neon_chroma_lanes(sampling) ==
    IF sampling = "YUV444" THEN 16 ELSE 8

\* one turn of `while cx + 16 < width`
NeonRgbaToYuvBlock ==
    /\ call.kernel = "neon_rgba_to_yuv"
    /\ status = "running"
    /\ off.cx + 16 < call.width
    /\ LET t == forward_transforms[call.range][call.matrix]
           rng == get_yuv_range(8, call.range)
           cx == off.cx
           ux == off.ux
           lanes == neon_chroma_lanes(call.SAMPLING)
           chroma(plane, cb) ==
               [i \in DOMAIN plane |->
                   IF i < ux \/ i >= ux + lanes THEN plane[i]
                   ELSE IF call.SAMPLING = "YUV444"
                   THEN (IF cb THEN neon_cb(call, t, rng, rgba, cx + (i - ux))
                         ELSE neon_cr(call, t, rng, rgba, cx + (i - ux)))
                   ELSE (IF cb
                         THEN neon_pairwise(neon_cb(call, t, rng, rgba, cx + 2 * (i - ux)),
                                            neon_cb(call, t, rng, rgba, cx + 2 * (i - ux) + 1))
                         ELSE neon_pairwise(neon_cr(call, t, rng, rgba, cx + 2 * (i - ux)),
                                            neon_cr(call, t, rng, rgba, cx + 2 * (i - ux) + 1)))]
       IN  /\ y_plane' = [i \in DOMAIN y_plane |->
                             IF i >= cx /\ i < cx + 16 THEN neon_y(call, t, rng, rgba, i)
                             ELSE y_plane[i]]
           /\ u_plane' = IF call.compute_uv_row THEN chroma(u_plane, TRUE) ELSE u_plane
           /\ v_plane' = IF call.compute_uv_row THEN chroma(v_plane, FALSE) ELSE v_plane
           /\ wr' = [wr EXCEPT
                       !.y_plane = @ \cup {<<0, i>> : i \in cx..(cx + 15)},
                       !.u_plane = IF call.compute_uv_row
                                   THEN @ \cup {<<0, i>> : i \in ux..(ux + lanes - 1)} ELSE @,
                       !.v_plane = IF call.compute_uv_row
                                   THEN @ \cup {<<0, i>> : i \in ux..(ux + lanes - 1)} ELSE @]
           /\ rd' = [rd EXCEPT !.rgba = @ \cup
                       {<<0, call.rgba_offset + i>> :
                           i \in (cx * get_channels_count(call.ORIGIN_CHANNELS))..
                                 ((cx + 16) * get_channels_count(call.ORIGIN_CHANNELS) - 1)}]
           /\ off' = [cx |-> cx + 16,
                      ux |-> IF call.compute_uv_row THEN ux + lanes ELSE ux]
    /\ UNCHANGED <<call, rgba, uv_plane, yuy2_store, y, rows, status>>

\* the loop condition fails: ProcessedOffset { cx, ux } is returned
NeonRgbaToYuvReturn ==
    /\ call.kernel = "neon_rgba_to_yuv"
    /\ status = "running"
    /\ ~(off.cx + 16 < call.width)
    /\ status' = "ok"
    /\ UNCHANGED <<call, rgba, y_plane, uv_plane, u_plane, v_plane, yuy2_store, y, rows, off, wr, rd>>

(***************************************************************************)
(* Inputs of the vector kernel: one row of 16 * blocks + tail pixels from  *)
(* the palette, every channel order, sampling, range and standard matrix,  *)
(* on a chroma row or not.                                                 *)
(***************************************************************************)
VectorWidths ==
    {16 * b + e : b \in 1..MaxBlocks, e \in 0..MaxTail}

InitVector ==
    \E ch \in YuvSourceChannels, sampling \in YuvChromaSample, range \in YuvRange,
       matrix \in YuvStandardMatrix, width \in VectorWidths, seed \in 0..MaxSeed,
       compute \in BOOLEAN :
        /\ call = [kernel |-> "neon_rgba_to_yuv", ORIGIN_CHANNELS |-> ch, SAMPLING |-> sampling,
                   PRECISION |-> PRECISION_FWD, range |-> range, matrix |-> matrix,
                   width |-> width, rgba_offset |-> 0, compute_uv_row |-> compute]
        /\ rgba = [i \in 0..(width * get_channels_count(ch) - 1) |->
                      SourceByte(ch, seed, width, width * get_channels_count(ch), i)]
        /\ y_plane = Buffer(width, 0)
        /\ u_plane = Buffer(yuy2_chroma_width(sampling, width), 0)
        /\ v_plane = Buffer(yuy2_chroma_width(sampling, width), 0)
        /\ uv_plane = <<>>
        /\ yuy2_store = <<>>
        /\ y = 0
        /\ rows = {}
        /\ off = [cx |-> 0, ux |-> 0]
        /\ status = "running"
        /\ wr = NoAccess
        /\ rd = NoAccess

NextVector ==
    \/ NeonRgbaToYuvBlock
    \/ NeonRgbaToYuvReturn

SpecVector ==
    InitVector /\ [][NextVector]_vars

(***************************************************************************)
(* Properties of the vector kernel (SpecVector).                           *)
(***************************************************************************)
\* channel k (1 = R, 2 = G, 3 = B) of the pixel at column x of the row
RowChannel(x, k) ==
    neon_load(call, rgba, x, k - 1)

\* the scalar reference: Cb and Cr of chroma sample i of the row
ScalarChroma(i) ==
    IF call.SAMPLING = "YUV444"
    THEN chroma_of(call.range, call.matrix, RowChannel(i, 1), RowChannel(i, 2), RowChannel(i, 3))
    ELSE chroma_of(call.range, call.matrix,
             pair_average(call.SAMPLING, RowChannel(2 * i, 1), RowChannel(2 * i + 1, 1)),
             pair_average(call.SAMPLING, RowChannel(2 * i, 2), RowChannel(2 * i + 1, 2)),
             pair_average(call.SAMPLING, RowChannel(2 * i, 3), RowChannel(2 * i + 1, 3)))

\* C13: for every row content and every width, the luma and chroma values
\* the vector row kernel stores for the pixels it handles equal the values of
\* the scalar reference formula for the same pixels; for subsampled chroma
\* that is the transform of the averaged RGB pair.
C13_VectorEqualsScalar ==
    (call.kernel = "neon_rgba_to_yuv" /\ status = "ok") =>
        /\ \A x \in 0..(off.cx - 1) :
             y_plane[x] = luma_of(call.range, call.matrix, RowChannel(x, 1), RowChannel(x, 2),
                                  RowChannel(x, 3))
        /\ \A i \in 0..(off.ux - 1) :
             /\ u_plane[i] = ScalarChroma(i).cb
             /\ v_plane[i] = ScalarChroma(i).cr

(***************************************************************************)
(* yuv_p10_rgba.rs: yuv_p16_to_image_impl, planar YUV of 16-bit words ->   *)
(* RGB family, 8 bit.  check_constraints is that of the AR30 conversion.   *)
(***************************************************************************)
PRECISION_P16 == 6

\* ROUNDING_CONST
p16_rounding_const ==
    Pow2(PRECISION_P16 - 1)

\* store_shift = PRECISION + bit_depth.saturating_sub(8)
p16_store_shift(bit_depth) ==
    PRECISION_P16 + Max(bit_depth - 8, 0)

p16_inverse_transform(bit_depth, range, matrix) ==
    LET rng == get_yuv_range(bit_depth, range)
        k == get_kr_kb(matrix)
        t == get_inverse_transform(Pow2(bit_depth) - 1, rng.range_y, rng.range_uv, k.kr, k.kb)
    IN  IF t.fails THEN t ELSE to_integers_inverse(t, PRECISION_P16)

\* the destination is cut into whole rows of rgba_stride bytes
p16_rows(c) ==
    Length(rgba) \div c.rgba_stride

p16_chroma_offset(c, yy, stride) ==
    IF c.SAMPLING = "Yuv420" THEN Shr(yy, 1) * stride ELSE yy * stride

\* r, g, b before saturation, from the words as loaded
p16_accumulate(t, rng, y_vl, cb_vl, cr_vl) ==
    LET y_value == (y_vl - rng.bias_y) * t.y_coef
        cb_value == cb_vl - rng.bias_uv
        cr_value == cr_vl - rng.bias_uv
    IN  [r |-> y_value + t.cr_coef * cr_value,
         b |-> y_value + t.cb_coef * cb_value,
         g |-> y_value - t.g_coeff_1 * cr_value - t.g_coeff_2 * cb_value]

\* (acc + ROUNDING_CONST) >> store_shift, .min(255).max(0)
p16_channel(acc, store_shift) ==
    saturate(Shr(acc + p16_rounding_const, store_shift), 255)

\* the pixel at column x from the chroma sample at cx, stored when `when` holds
p16_pixel(when, c, t, rng, yy, x, cx, s) ==
    LET msb_shift == 16 - c.bit_depth
        i_y == yy * c.y_stride + x
        i_u == p16_chroma_offset(c, yy, c.u_stride) + cx
        i_v == p16_chroma_offset(c, yy, c.v_stride) + cx
        acc == p16_accumulate(t, rng,
                   to_ne(c.ENDIANNESS, c.BYTES_POSITION, Load(y_plane, i_y), msb_shift),
                   to_ne(c.ENDIANNESS, c.BYTES_POSITION, Load(u_plane, i_u), msb_shift),
                   to_ne(c.ENDIANNESS, c.BYTES_POSITION, Load(v_plane, i_v), msb_shift))
        shift == p16_store_shift(c.bit_depth)
    IN  IF when
        THEN store_rgbx(TRUE,
                 [s EXCEPT !.rdy = @ \cup {<<yy, i_y>>},
                           !.rdu = @ \cup {<<yy, i_u>>},
                           !.rdv = @ \cup {<<yy, i_v>>}],
                 yy, yy * c.rgba_stride + x * get_channels_count(c.DESTINATION_CHANNELS),
                 c.DESTINATION_CHANNELS,
                 [r |-> p16_channel(acc.r, shift), g |-> p16_channel(acc.g, shift),
                  b |-> p16_channel(acc.b, shift)], 255)
        ELSE s

\* `while x < width`: the pixel at x, then, `if x + 1 < width` after x += 1,
\* the pixel at the new x from the same chroma sample; x += 1, cx += 1
RECURSIVE p16_row(_, _, _, _, _, _, _)
p16_row(c, t, rng, yy, x, cx, s) ==
    IF x >= c.width THEN s
    ELSE p16_row(c, t, rng, yy, x + 2, cx + 1,
                 p16_pixel((x + 1) + 1 < c.width, c, t, rng, yy, x + 1, cx,
                           p16_pixel(TRUE, c, t, rng, yy, x, cx, s)))

\* everything before the row iterator: check_constraints?, then the
\* transform, which panics when kg = 0
YuvP16ToImageEnter ==
    /\ call.kernel = "yuv_p16_to_image"
    /\ status = "called"
    /\ status' = IF check_constraints_fails(call) THEN "err"
                 ELSE IF p16_inverse_transform(call.bit_depth, call.range, call.matrix).fails
                 THEN "panic"
                 ELSE IF p16_rows(call) = 0 THEN "ok"
                 ELSE "running"
    /\ UNCHANGED <<call, rgba, y_plane, uv_plane, u_plane, v_plane, yuy2_store, y, rows, off,
                   wr, rd>>

\* one row of the (parallel) row iterator
YuvP16ToImageRow ==
    /\ call.kernel = "yuv_p16_to_image"
    /\ status = "running"
    /\ \E yy \in (0..(p16_rows(call) - 1)) \ rows :
         LET s == p16_row(call, p16_inverse_transform(call.bit_depth, call.range, call.matrix),
                          get_yuv_range(call.bit_depth, call.range), yy, 0, 0,
                          [dst |-> rgba, wdst |-> wr.rgba, rdy |-> rd.y_plane,
                           rdu |-> rd.u_plane, rdv |-> rd.v_plane])
         IN  /\ rgba' = s.dst
             /\ wr' = [wr EXCEPT !.rgba = s.wdst]
             /\ rd' = [rd EXCEPT !.y_plane = s.rdy, !.u_plane = s.rdu, !.v_plane = s.rdv]
             /\ rows' = rows \cup {yy}
             /\ status' = IF rows \cup {yy} = 0..(p16_rows(call) - 1) THEN "ok" ELSE "running"
    /\ UNCHANGED <<call, y_plane, uv_plane, u_plane, v_plane, yuy2_store, y, off>>

(***************************************************************************)
(* Inputs of yuv_p16_to_image_impl: 10-bit images (the depth every public  *)
(* entry point passes) of every sampling, width and height, the strides    *)
(* tight or padded, the luma plane of the right length or one word short.  *)
(***************************************************************************)
P16Cases ==
    {<<"Rgba", "LittleEndian", "LeastSignificantBytes", "Full", "Bt601">>,
     <<"Bgra", "BigEndian", "MostSignificantBytes", "TV", "Bt601">>,
     <<"Rgb", "LittleEndian", "MostSignificantBytes", "Full", "Bt709">>,
     <<"Bgr", "BigEndian", "LeastSignificantBytes", "TV", "Smpte240">>,
     <<"Rgba", "LittleEndian", "LeastSignificantBytes", "Full", "Custom(0.5, 0.5)">>}

InitP16Image ==
    \E case \in P16Cases, sampling \in YuvChromaSubsampling, width \in 1..MaxWidth,
       height \in 1..MaxHeight, pad \in 0..MaxPad, seed \in 0..MaxSeed,
       defect \in {"none", "y_plane"} :
        LET chroma_width == IF sampling = "Yuv444" THEN width ELSE DivCeil(width, 2)
            chroma_height == IF sampling = "Yuv420" THEN DivCeil(height, 2) ELSE height
            y_stride == width + pad
            u_stride == chroma_width + pad
            rgba_stride == get_channels_count(case[1]) * width + pad
        IN  /\ call = [kernel |-> "yuv_p16_to_image", DESTINATION_CHANNELS |-> case[1],
                       SAMPLING |-> sampling, ENDIANNESS |-> case[2],
                       BYTES_POSITION |-> case[3], bit_depth |-> 10, range |-> case[4],
                       matrix |-> case[5], width |-> width, height |-> height,
                       y_stride |-> y_stride, u_stride |-> u_stride, v_stride |-> u_stride,
                       rgba_stride |-> rgba_stride]
            /\ y_plane = [i \in 0..(y_stride * height - 1 - Short(defect, "y_plane")) |->
                             IF i % y_stride >= width THEN 0
                             ELSE StoredWord(case[2], case[3], 10,
                                             SourceYuv(seed, i % y_stride, i \div y_stride)[1])]
            /\ u_plane = [i \in 0..(u_stride * chroma_height - 1) |->
                             IF i % u_stride >= chroma_width THEN 0
                             ELSE StoredWord(case[2], case[3], 10,
                                             SourceYuv(seed, i % u_stride, i \div u_stride)[2])]
            /\ v_plane = [i \in 0..(u_stride * chroma_height - 1) |->
                             IF i % u_stride >= chroma_width THEN 0
                             ELSE StoredWord(case[2], case[3], 10,
                                             SourceYuv(seed, i % u_stride, i \div u_stride)[3])]
            /\ rgba = Buffer(rgba_stride * height, 0)
            /\ uv_plane = <<>>
            /\ yuy2_store = <<>>
            /\ y = 0
            /\ rows = {}
            /\ off = [y_offset |-> 0, uv_offset |-> 0, rgba_offset |-> 0]
            /\ status = "called"
            /\ wr = NoAccess
            /\ rd = NoAccess

NextP16 ==
    \/ YuvP16ToImageEnter
    \/ YuvP16ToImageRow

SpecP16 ==
    InitP16Image /\ [][NextP16]_vars

(***************************************************************************)
(* Properties of yuv_p16_to_image_impl (SpecP16).                          *)
(***************************************************************************)
IsP16 ==
    call.kernel = "yuv_p16_to_image"

\* index of the first byte of destination pixel (x, yy)
P16Shift(x, yy) ==
    yy * call.rgba_stride + x * get_channels_count(call.DESTINATION_CHANNELS)

\* the accumulated products of pixel (x, yy): its luma word and the chroma
\* words the kernel pairs it with
P16Acc(x, yy) ==
    LET msb_shift == 16 - call.bit_depth
        t == p16_inverse_transform(call.bit_depth, call.range, call.matrix)
    IN  p16_accumulate(t, get_yuv_range(call.bit_depth, call.range),
            to_ne(call.ENDIANNESS, call.BYTES_POSITION,
                  y_plane[yy * call.y_stride + x], msb_shift),
            to_ne(call.ENDIANNESS, call.BYTES_POSITION,
                  u_plane[p16_chroma_offset(call, yy, call.u_stride) + x \div 2], msb_shift),
            to_ne(call.ENDIANNESS, call.BYTES_POSITION,
                  v_plane[p16_chroma_offset(call, yy, call.v_stride) + x \div 2], msb_shift))

\* (acc + 2^(s-1)) >> s, saturated to 8 bits
RoundHalfUp(acc, s) ==
    saturate(Shr(acc + Pow2(s - 1), s), 255)

\* C14: every per-channel fixed-point evaluation computes
\* (acc + 2^(s-1)) >> s, where s is the number of bits actually shifted out:
\* every channel the 10-bit kernel has stored is the round-half-up of its
\* accumulated products at the applied shift.
C14_RoundingIsHalfOfShift ==
    (IsP16 /\ status = "ok") =>
        \A yy \in 0..(call.height - 1), x \in 0..(call.width - 1) :
            LET ch == call.DESTINATION_CHANNELS
                s == p16_store_shift(call.bit_depth)
            IN  <<yy, P16Shift(x, yy) + get_r_channel_offset(ch)>> \in wr.rgba =>
                    /\ rgba[P16Shift(x, yy) + get_r_channel_offset(ch)]
                         = RoundHalfUp(P16Acc(x, yy).r, s)
                    /\ rgba[P16Shift(x, yy) + get_g_channel_offset(ch)]
                         = RoundHalfUp(P16Acc(x, yy).g, s)
                    /\ rgba[P16Shift(x, yy) + get_b_channel_offset(ch)]
                         = RoundHalfUp(P16Acc(x, yy).b, s)

(***************************************************************************)
(* Degenerate primaries: every kernel called with                          *)
(* YuvStandardMatrix::Custom(0.5, 0.5), for which kg = 1 - kr - kb = 0.    *)
(***************************************************************************)
InitDegenerate ==
    /\ InitForwardWith({"Custom(0.5, 0.5)"}) \/ InitInverse \/ InitP16Image
    /\ call.matrix = "Custom(0.5, 0.5)"

NextDegenerate ==
    \/ RgbxToNvRow
    \/ YuvNv12ToRgbxEnter
    \/ Yuv422ToRgbaCheck
    \/ YuvP16ToImageEnter

SpecDegenerate ==
    InitDegenerate /\ [][NextDegenerate]_vars

\* kg = 1 - kr - kb of the matrix is 0
KgIsZero(matrix) ==
    LET k == get_kr_kb(matrix)
    IN  RatSub(RatSub(RatInt(1), k.kr), k.kb)[1] = 0

\* C15: every conversion, forward or inverse, that is given primaries with
\* kg = 1 - kr - kb = 0 fails instead of producing coefficients and
\* converting: it never returns normally and stores nothing.
C15_DegenerateMatrixFails ==
    KgIsZero(call.matrix) =>
        /\ status # "ok"
        /\ wr.rgba = {}
        /\ wr.y_plane = {}
        /\ wr.uv_plane = {}

\* C16: on the packed-30 path bit depths 8, 10 and 12 are accepted, and any
\* other bit depth makes the call return an error to the caller: no panic,
\* no output written.
C16_BitDepthAcceptedOrError ==
    call.kernel = "yuv_p16_to_image_ar30" =>
        /\ call.bit_depth \in {8, 10, 12} => status # "panic"
        /\ call.bit_depth \notin {8, 10, 12} =>
               (status \in {"bit_depth", "err"} /\ wr.rgba = {})

\* C17: whenever the destination channel order has an alpha channel (the
\* source has no alpha plane), the alpha of every output pixel, first and
\* second pixel of a pair and the odd-width tail alike, equals the maximum
\* value of the output depth, 255 for the 8-bit output of the 10-bit kernel.
C17_AlphaIsMaximum ==
    (IsP16 /\ status = "ok" /\ has_alpha(call.DESTINATION_CHANNELS)) =>
        \A yy \in 0..(call.height - 1), x \in 0..(call.width - 1) :
            rgba[P16Shift(x, yy) + get_a_channel_offset(call.DESTINATION_CHANNELS)] = 255

\* the packed call has converted row yy
Yuy2RowDone(yy) ==
    call.kernel = "yuv_to_yuy2" /\ yy \in rows

\* the byte stored at slot `position` of group g of packed row yy
Yuy2Slot(yy, g, position) ==
    yuy2_store[yy * call.yuy2_stride + g * 4 + position]

\* C18: planar 4:4:4 to packed: in every complete pair i of every row the
\* packed U is (u[2i] + u[2i+1] + 1) >> 1 and the packed V is
\* (v[2i] + v[2i+1] + 1) >> 1.
C18_Packed444ChromaIsRoundedMean ==
    \A yy \in 0..(MaxHeight - 1) :
        (Yuy2RowDone(yy) /\ call.SAMPLING = "YUV444") =>
            \A i \in 0..((call.width \div 2) - 1) :
                /\ Yuy2Slot(yy, i, yuy2_get_u_position(call.YUY2_TARGET))
                     = (u_plane[yy * call.u_stride + 2 * i]
                        + u_plane[yy * call.u_stride + 2 * i + 1] + 1) \div 2
                /\ Yuy2Slot(yy, i, yuy2_get_v_position(call.YUY2_TARGET))
                     = (v_plane[yy * call.v_stride + 2 * i]
                        + v_plane[yy * call.v_stride + 2 * i + 1] + 1) \div 2

\* a returned 4:4:4 call whose second pair has an odd sum of two different V
\* samples, so the + 1 and the pairing both show in the packed byte
C18_Witness ==
    /\ call.kernel = "yuv_to_yuy2"
    /\ status = "ok"
    /\ call.SAMPLING = "YUV444"
    /\ call.width >= 4
    /\ (v_plane[2] + v_plane[3]) % 2 = 1
    /\ v_plane[1] # v_plane[3]
    /\ Yuy2Slot(0, 1, yuy2_get_v_position(call.YUY2_TARGET))
         = (v_plane[2] + v_plane[3] + 1) \div 2

\* C19: for an odd width the last 4-byte group of every row holds the last
\* column's luma in the first-luma slot, that column's own U and V in the
\* chroma slots and 0 in the second-luma slot, for each subsampling and each
\* of the four layouts.
C19_OddTailGroup ==
    \A yy \in 0..(MaxHeight - 1) :
        (Yuy2RowDone(yy) /\ call.width % 2 = 1) =>
            LET last == call.width - 1
                g == last \div 2
                column == IF call.SAMPLING = "YUV444" THEN last ELSE last \div 2
                row == IF call.SAMPLING = "YUV420" THEN yy \div 2 ELSE yy
                second == yuy2_get_second_y_position(call.YUY2_TARGET)
            IN  /\ Yuy2Slot(yy, g, yuy2_get_first_y_position(call.YUY2_TARGET))
                     = y_plane[yy * call.y_stride + last]
                /\ Yuy2Slot(yy, g, yuy2_get_u_position(call.YUY2_TARGET))
                     = u_plane[row * call.u_stride + column]
                /\ Yuy2Slot(yy, g, yuy2_get_v_position(call.YUY2_TARGET))
                     = v_plane[row * call.v_stride + column]
                /\ Yuy2Slot(yy, g, second) = 0
                /\ Stored(wr.yuy2_store, yy * call.yuy2_stride + g * 4 + second)

\* a returned 4:4:4 call of width 3 whose last column's U differs from the
\* U of the column before it
C19_Witness ==
    /\ call.kernel = "yuv_to_yuy2"
    /\ status = "ok"
    /\ call.SAMPLING = "YUV444"
    /\ call.width = 3
    /\ u_plane[2] # u_plane[1]
    /\ y_plane[2] # 0
    /\ Yuy2Slot(0, 1, yuy2_get_u_position(call.YUY2_TARGET)) = u_plane[2]
    /\ Yuy2Slot(0, 1, yuy2_get_second_y_position(call.YUY2_TARGET)) = 0

\* C20: yuv422_to_rgba supports rows that are not tightly packed: for every
\* y_stride >= width and chroma strides >= ceil(width / 2), every pixel
\* (x, y) with x < width, the last pixel of an odd width included, is
\* written, and is computed from Y[y * y_stride + x] and the chroma sample
\* at column x >> 1 of row y.
C20_Yuv422StridedRows ==
    (Is422 /\ status = "ok") =>
        \A yy \in 0..(call.height - 1), x \in 0..(call.width - 1) :
            LET shift == yy * call.width * 4 + x * 4
                p == inverse_pixel(yuv422_inverse_transforms[call.range][call.matrix],
                                   get_yuv_range(call.bit_depth, call.range), PRECISION_422,
                                   Pow2(call.bit_depth) - 1,
                                   y_plane[yy * call.y_stride + x],
                                   u_plane[yy * call.u_stride + Shr(x, 1)],
                                   v_plane[yy * call.v_stride + Shr(x, 1)])
            IN  /\ \A k \in 0..3 : Stored(wr.rgba, shift + k)
                /\ rgba[shift] = p.r
                /\ rgba[shift + 1] = p.g
                /\ rgba[shift + 2] = p.b

\* every store of the packed call lies in the row chunk of the row it belongs to
Yuy2WritesInRow ==
    \A a \in wr.yuy2_store :
        /\ a[1] * call.yuy2_stride <= a[2]
        /\ a[2] < (a[1] + 1) * call.yuy2_stride
        /\ a[2] < Length(yuy2_store)

\* C21: for an odd width the planar -> packed conversions need room for
\* width + 1 pixels, 2 * (width + 1) bytes, in every destination row; on a
\* destination without it the call panics (no row is converted and the call
\* does not return) and never writes outside the destination row or buffer.
C21_ShortPackedRowPanics ==
    (/\ call.kernel = "yuv_to_yuy2"
     /\ call.width % 2 = 1
     /\ call.yuy2_stride < 2 * (call.width + 1)) =>
        /\ rows = {}
        /\ status # "ok"
        /\ Yuy2WritesInRow

(***************************************************************************)
(* get_yuv_range in the kernels that take a bit depth: yuv422_to_rgba at   *)
(* depth 8 and yuv_p16_to_image_impl at depth 10, both ranges.             *)
(***************************************************************************)
InitRange ==
    \/ InitInverse /\ Is422
    \/ InitP16Image

NextRange ==
    \/ Yuv422ToRgbaCheck
    \/ Yuv422ToRgbaRow
    \/ YuvP16ToImageEnter
    \/ YuvP16ToImageRow

SpecRange ==
    InitRange /\ [][NextRange]_vars

\* the range record the kernel of the call works with
RangeOfCall ==
    get_yuv_range(call.bit_depth, call.range)

\* C22: get_yuv_range at depth 8 returns bias_y = 16, range_y = 219,
\* bias_uv = 128, range_uv = 224 for TV range and bias_y = 0, range_y = 255
\* for Full range; at every depth >= 8 the four values are derived from the
\* same (depth, range) pair: the chroma bias is half the scale of the depth
\* and the TV values are the depth-8 values scaled to it.
C22_RangeOfDepth ==
    /\ (call.bit_depth = 8 /\ call.range = "TV") =>
           /\ RangeOfCall.bias_y = 16
           /\ RangeOfCall.range_y = 219
           /\ RangeOfCall.bias_uv = 128
           /\ RangeOfCall.range_uv = 224
    /\ (call.bit_depth = 8 /\ call.range = "Full") =>
           /\ RangeOfCall.bias_y = 0
           /\ RangeOfCall.range_y = 255
    /\ RangeOfCall.bias_uv * 2 = Pow2(call.bit_depth)
    /\ call.range = "TV" =>
           /\ RangeOfCall.bias_y * 8 = RangeOfCall.bias_uv
           /\ RangeOfCall.range_y * 128 = 219 * RangeOfCall.bias_uv
           /\ RangeOfCall.range_uv * 128 = 224 * RangeOfCall.bias_uv
    /\ call.range = "Full" =>
           /\ RangeOfCall.bias_y = 0
           /\ RangeOfCall.range_y = 2 * RangeOfCall.bias_uv - 1
           /\ RangeOfCall.range_uv = 2 * RangeOfCall.bias_uv - 1

\* a returned TV-range call of the 10-bit kernel that has stored pixels with
\* the range of depth 10
C22_Witness ==
    /\ IsP16
    /\ status = "ok"
    /\ call.range = "TV"
    /\ call.bit_depth = 10
    /\ wr.rgba # {}
    /\ RangeOfCall.bias_y = 64
    /\ RangeOfCall.range_y = 876
    /\ RangeOfCall.bias_uv = 512
    /\ RangeOfCall.range_uv = 896

\* the pixel of the round trip is pure red
IsRed(pixel) ==
    pixel[0] = 255 /\ pixel[1] = 0 /\ pixel[2] = 0

\* C23: under Full range, BT.601, 4:4:4 the forward transform of pure red
\* (255, 0, 0) gives Y, Cb, Cr each within 1 of 76, 85, 255, and the inverse
\* transform of exactly that (Y, Cb, Cr) gives R, G, B each within 1 of
\* (255, 0, 0).
C23_RedRoundTrip ==
    /\ (call.kernel = "rgbx_to_nv" /\ status = "ok" /\ IsRed(rgba)) =>
           /\ y_plane[0] - 76 \in -1..1
           /\ uv_plane[0] - 85 \in -1..1
           /\ uv_plane[1] - 255 \in -1..1
    /\ (RoundTripDone /\ IsRed(call.origin)) =>
           /\ y_plane[0] - 76 \in -1..1
           /\ uv_plane[0] - 85 \in -1..1
           /\ uv_plane[1] - 255 \in -1..1
           /\ rgba[0] - 255 \in -1..1
           /\ rgba[1] \in -1..1
           /\ rgba[2] \in -1..1

\* the round trip of pure red has returned, the inverse call having written
\* the three channels of the pixel
C23_Witness ==
    /\ RoundTripDone
    /\ IsRed(call.origin)
    /\ \A i \in 0..2 : Stored(wr.rgba, i)
    /\ Stored(rd.y_plane, 0)
    /\ Stored(rd.uv_plane, 0)
    /\ Stored(rd.uv_plane, 1)

\* C24: yuv_p16_to_image_impl writes every destination pixel x in
\* [0, width) of every row, for every width >= 1, even or odd: the row loop
\* that takes the pixels in pairs leaves none unwritten, the last pixel of
\* an even width included.
C24_P16WritesEveryPixel ==
    (IsP16 /\ status = "ok") =>
        \A yy \in 0..(call.height - 1), x \in 0..(call.width - 1) :
            \A k \in 0..(get_channels_count(call.DESTINATION_CHANNELS) - 1) :
                Stored(wr.rgba, P16Shift(x, yy) + k)

\* r, g, b of pixel (x, yy) computed from its luma word and the chroma words
\* at index cx of its chroma row
P16PixelFrom(x, cx, yy) ==
    LET msb_shift == 16 - call.bit_depth
        acc == p16_accumulate(
                   p16_inverse_transform(call.bit_depth, call.range, call.matrix),
                   get_yuv_range(call.bit_depth, call.range),
                   to_ne(call.ENDIANNESS, call.BYTES_POSITION,
                         y_plane[yy * call.y_stride + x], msb_shift),
                   to_ne(call.ENDIANNESS, call.BYTES_POSITION,
                         u_plane[p16_chroma_offset(call, yy, call.u_stride) + cx], msb_shift),
                   to_ne(call.ENDIANNESS, call.BYTES_POSITION,
                         v_plane[p16_chroma_offset(call, yy, call.v_stride) + cx], msb_shift))
    IN  [r |-> p16_channel(acc.r, p16_store_shift(call.bit_depth)),
         g |-> p16_channel(acc.g, p16_store_shift(call.bit_depth)),
         b |-> p16_channel(acc.b, p16_store_shift(call.bit_depth))]

\* r, g, b of destination pixel (x, yy) as stored
P16DstPixel(x, yy) ==
    [r |-> rgba[P16Shift(x, yy) + get_r_channel_offset(call.DESTINATION_CHANNELS)],
     g |-> rgba[P16Shift(x, yy) + get_g_channel_offset(call.DESTINATION_CHANNELS)],
     b |-> rgba[P16Shift(x, yy) + get_b_channel_offset(call.DESTINATION_CHANNELS)]]

\* C25: yuv_p16_to_image_impl converts pixel x of a row with the chroma
\* sample at index x when the source is 4:4:4 and at index x >> 1 when the
\* source is 4:2:2 or 4:2:0.
C25_P16ChromaIndex ==
    IsP16 =>
        \A yy \in rows : \A x \in 0..(call.width - 1) :
            Stored(wr.rgba, P16Shift(x, yy)) =>
                P16DstPixel(x, yy)
                    = P16PixelFrom(x, IF call.SAMPLING = "Yuv444" THEN x ELSE Shr(x, 1), yy)

\* the four bytes of destination pixel (x, yy) of the packed-30 call when
\* each channel is saturated to `bits` bits before it is packed
Ar30PixelSaturatedTo(bits, x, yy) ==
    LET msb_shift == 16 - call.bit_depth
        t == search_inverse_transform(PRECISION_AR30, call.bit_depth, call.range, call.matrix)
        rng == get_yuv_range(call.bit_depth, call.range)
        cy == IF call.SAMPLING = "Yuv420" THEN yy \div 2 ELSE yy
        cx == IF call.SAMPLING = "Yuv444" THEN x ELSE x \div 2
        y_value == (to_ne(call.ENDIANNESS, call.BYTES_POSITION,
                          y_plane[yy * call.y_stride + x], msb_shift) - rng.bias_y) * t.y_coef
        cb_value == to_ne(call.ENDIANNESS, call.BYTES_POSITION,
                          u_plane[cy * call.u_stride + cx], msb_shift) - rng.bias_uv
        cr_value == to_ne(call.ENDIANNESS, call.BYTES_POSITION,
                          v_plane[cy * call.v_stride + cx], msb_shift) - rng.bias_uv
    IN  pack(call.AR30_LAYOUT, call.store_type,
             qrshr(PRECISION_AR30, bits, y_value + t.cr_coef * cr_value),
             qrshr(PRECISION_AR30, bits,
                   y_value - t.g_coeff_1 * cr_value - t.g_coeff_2 * cb_value),
             qrshr(PRECISION_AR30, bits, y_value + t.cb_coef * cb_value))

\* C26: in the AR30/RA30 kernel, for source bit depths 10 and 12 alike, the
\* R, G and B handed to the 30-bit packer lie in [0, 1023] and come from the
\* same saturation bound at every pixel position (first and second pixel of
\* a pair, odd-width tail, 4:4:4 path): every stored word is the packed
\* triple of the channels saturated to 10 bits.
C26_Ar30SaturatesTo1023 ==
    (call.kernel = "yuv_p16_to_image_ar30" /\ status = "ok") =>
        \A yy \in 0..(call.height - 1), x \in 0..(call.width - 1) :
            \A k \in 0..3 :
                rgba[yy * call.rgba_stride + 4 * x + k]
                    = Ar30PixelSaturatedTo(AR30_DEPTH, x, yy)[k + 1]

(***************************************************************************)
(* The two kernels that take the number of rows from the length of the     *)
(* destination, on buffers that hold one row more than the image.          *)
(***************************************************************************)
InitSpare ==
    \/ /\ InitNvImageWith(1)
       /\ yuy2_store = <<>>
       /\ y = 0
       /\ rows = {}
       /\ off = [y_offset |-> 0, uv_offset |-> 0, rgba_offset |-> 0]
       /\ wr = NoAccess
       /\ rd = NoAccess
    \/ InitYuy2With(0, 1)

NextSpare ==
    \/ YuvNv12ToRgbxEnter
    \/ YuvNv12ToRgbxRow
    \/ YuvToYuy2Row

SpecSpare ==
    InitSpare /\ [][NextSpare]_vars

\* the rows of the accesses
RowsOf(accesses) ==
    {a[1] : a \in accesses}

\* C27: the inverse NV kernel and the planar -> packed kernel convert
\* exactly `height` rows: with a destination of stride x height bytes or
\* more, no source row of index >= height is read and no destination row of
\* index >= height is written.
C27_ConvertsHeightRows ==
    (call.kernel \in {"yuv_nv12_to_rgbx", "yuv_to_yuy2"}) =>
        /\ rows \subseteq 0..(call.height - 1)
        /\ RowsOf(wr.rgba) \cup RowsOf(wr.yuy2_store) \subseteq 0..(call.height - 1)
        /\ RowsOf(rd.y_plane) \cup RowsOf(rd.uv_plane) \cup RowsOf(rd.u_plane)
             \cup RowsOf(rd.v_plane) \subseteq 0..(call.height - 1)

(***************************************************************************)
(* Packed images through the planar form: yuv_to_yuy2_impl writes a packed *)
(* image, yuy2_to_yuv_impl unpacks it at any sampling into fresh planes,   *)
(* and yuv_to_yuy2_impl packs those planes again into a fresh buffer.  The *)
(* record of the last call keeps the first packed image as `packed`.       *)
(***************************************************************************)
\* the call of yuy2_to_yuv_impl, at any sampling, on the packed image the
\* returned call wrote
Yuy2Unpack ==
    /\ call.kernel = "yuv_to_yuy2"
    /\ status = "ok"
    /\ "packed" \notin DOMAIN call
    /\ \E sampling \in YuvChromaSample :
         LET u_stride == yuy2_chroma_width(sampling, call.width) + (call.y_stride - call.width)
         IN  /\ call' = [kernel |-> "yuy2_to_yuv", YUY2_TARGET |-> call.YUY2_TARGET,
                         SAMPLING |-> sampling, width |-> call.width, height |-> call.height,
                         y_stride |-> call.y_stride, u_stride |-> u_stride,
                         v_stride |-> u_stride, yuy2_stride |-> call.yuy2_stride]
             /\ u_plane' = Buffer(u_stride * chroma_rows(sampling, call.height), 0)
             /\ v_plane' = Buffer(u_stride * chroma_rows(sampling, call.height), 0)
    /\ y_plane' = Buffer(Length(y_plane), 0)
    /\ status' = "running"
    /\ y' = 0
    /\ rows' = {}
    /\ off' = [y_offset |-> 0, u_offset |-> 0, v_offset |-> 0, yuy_offset |-> 0]
    /\ wr' = NoAccess
    /\ rd' = NoAccess
    /\ UNCHANGED <<rgba, uv_plane, yuy2_store>>

\* the call of yuv_to_yuy2_impl, at the same sampling, on the planes the
\* returned call wrote
Yuy2Repack ==
    /\ call.kernel = "yuy2_to_yuv"
    /\ status = "ok"
    /\ call' = [kernel |-> "yuv_to_yuy2", YUY2_TARGET |-> call.YUY2_TARGET,
                SAMPLING |-> call.SAMPLING, width |-> call.width, height |-> call.height,
                y_stride |-> call.y_stride, u_stride |-> call.u_stride,
                v_stride |-> call.v_stride, yuy2_stride |-> call.yuy2_stride,
                packed |-> yuy2_store]
    /\ yuy2_store' = Buffer(Length(yuy2_store), 0)
    /\ status' = "running"
    /\ y' = 0
    /\ rows' = {}
    /\ off' = [y_offset |-> 0, u_offset |-> 0, v_offset |-> 0, yuy_offset |-> 0]
    /\ wr' = NoAccess
    /\ rd' = NoAccess
    /\ UNCHANGED <<rgba, y_plane, uv_plane, u_plane, v_plane>>

NextRepack ==
    \/ YuvToYuy2Row
    \/ Yuy2Unpack
    \/ Yuy2ToYuvRow
    \/ Yuy2Repack

SpecRepack ==
    InitYuy2 /\ [][NextRepack]_vars

\* the packed row whose chroma the unpacked 4:2:0 chroma row k is to hold
LaterRow(k) ==
    IF 2 * k + 1 < call.height THEN 2 * k + 1 ELSE 2 * k

\* C28: in packed -> planar 4:2:0 conversion, after the call chroma row k
\* holds the chroma of exactly one packed row, packed row 2k+1 when
\* 2k+1 < height and packed row 2k otherwise: the later row overwrites the
\* earlier one and nothing is averaged vertically.
C28_LaterRowWins ==
    (call.kernel = "yuy2_to_yuv" /\ status = "ok" /\ call.SAMPLING = "YUV420") =>
        \A k \in 0..(chroma_rows("YUV420", call.height) - 1) :
            \A i \in 0..(DivCeil(call.width, 2) - 1) :
                /\ u_plane[k * call.u_stride + i]
                     = Yuy2Slot(LaterRow(k), i, yuy2_get_u_position(call.YUY2_TARGET))
                /\ v_plane[k * call.v_stride + i]
                     = Yuy2Slot(LaterRow(k), i, yuy2_get_v_position(call.YUY2_TARGET))

\* a returned 4:2:0 call on a packed image whose rows 0 and 1 carry
\* different U in the first group: chroma row 0 holds that of row 1
C28_Witness ==
    /\ call.kernel = "yuy2_to_yuv"
    /\ status = "ok"
    /\ call.SAMPLING = "YUV420"
    /\ call.height >= 2
    /\ Yuy2Slot(0, 0, yuy2_get_u_position(call.YUY2_TARGET))
         # Yuy2Slot(1, 0, yuy2_get_u_position(call.YUY2_TARGET))
    /\ u_plane[0] = Yuy2Slot(1, 0, yuy2_get_u_position(call.YUY2_TARGET))
    /\ Stored(wr.u_plane, 0)

\* the call that packs the unpacked planes again has returned
RepackDone ==
    call.kernel = "yuv_to_yuy2" /\ "packed" \in DOMAIN call /\ status = "ok"

\* C29: for every even width and each of the four packed layouts, packed ->
\* planar 4:4:4 -> packed reproduces every byte of the original packed rows:
\* the duplicated chroma averages back to itself.
C29_Repack444Exact ==
    (RepackDone /\ call.SAMPLING = "YUV444" /\ call.width % 2 = 0) =>
        \A yy \in 0..(call.height - 1) : \A k \in 0..(2 * call.width - 1) :
            /\ Stored(wr.yuy2_store, yy * call.yuy2_stride + k)
            /\ yuy2_store[yy * call.yuy2_stride + k] = call.packed[yy * call.yuy2_stride + k]

\* a returned repacking at 4:4:4 of an image of two groups and two rows or
\* more whose chroma differs from group to group and from row to row
C29_Witness ==
    /\ RepackDone
    /\ call.SAMPLING = "YUV444"
    /\ call.width = 4
    /\ call.height >= 2
    /\ call.packed[yuy2_get_u_position(call.YUY2_TARGET)]
         # call.packed[4 + yuy2_get_u_position(call.YUY2_TARGET)]
    /\ call.packed[yuy2_get_u_position(call.YUY2_TARGET)]
         # call.packed[call.yuy2_stride + yuy2_get_u_position(call.YUY2_TARGET)]
    /\ \A k \in 0..7 : yuy2_store[k] = call.packed[k]
    /\ \E k \in 0..7 : call.packed[k] # 0

(***************************************************************************)
(* sse/rgba_to_yuv_fast420.rs: sse41_rgba_to_yuv_dot_rgba_impl_ubs420, the *)
(* SSE kernel of the 4:2:0 forward conversion.  It converts two image rows *)
(* at once, 16 pixels of each for every turn of its loop, and the rest in  *)
(* local buffers.  rgba holds the two source rows (rgba0, rgba1) and       *)
(* y_plane the two luma rows (y_plane0, y_plane1), one after the other;    *)
(* u_plane and v_plane are the chroma rows.  Accesses are recorded as      *)
(* <<row, index in the row's slice>>.                                      *)
(***************************************************************************)
A_E == 7

\* `as i8`
AsI8(v) ==
    LET m == v % 256
    IN  IF m >= 128 THEN m - 256 ELSE m

\* one 16-bit lane of _mm_maddubs_epi16: two unsigned bytes times two signed
\* bytes, summed with signed saturation
mm_maddubs_epi16(a0, w0, a1, w1) ==
    Clamp(a0 * w0 + a1 * w1, -32768, 32767)

\* one lane of _mm_avg_epu8
mm_avg_epu8(a, b) ==
    Shr(a + b + 1, 1)

\* y_weights / cb_weights / cr_weights: the coefficients in the byte order of
\* the source, as signed bytes, the fourth weight being 0
sse420_weights(ch, k_r, k_g, k_b) ==
    IF ch \in {"Rgba", "Rgb"}
    THEN <<AsI8(k_r), AsI8(k_g), AsI8(k_b), 0>>
    ELSE <<AsI8(k_b), AsI8(k_g), AsI8(k_r), 0>>

\* _mm_maddubs_epi16, _mm_hadd_epi16, _mm_add_epi16 with the bias,
\* _mm_srai_epi16::<A_E>, _mm_packus_epi16 on the four bytes p of one pixel
sse420_dot(p, w, bias) ==
    LET lo == mm_maddubs_epi16(p[1], w[1], p[2], w[2])
        hi == mm_maddubs_epi16(p[3], w[3], p[4], w[4])
        biased == AsI16(AsI16(lo + hi) + AsI16(bias * Pow2(A_E) + Pow2(A_E - 1) - 1))
    IN  Clamp(Shr(biased, A_E), 0, 255)

\* the four bytes of the 32-bit lane of pixel x of source row r.  In the loop
\* every x is a pixel of the row; in the tail the local buffer holds the
\* pixels up to the width, then the last pixel once more when the tail is
\* odd, then zeros.  The fourth byte of a three-channel pixel is 0.
sse420_lane(c, src, r, x, odd) ==
    LET channels == get_channels_count(c.ORIGIN_CHANNELS)
        px == IF x < c.width THEN x ELSE c.width - 1
        base == r * c.width * channels + px * channels
    IN  IF x < c.width \/ (x = c.width /\ odd)
        THEN <<Load(src, base), Load(src, base + 1), Load(src, base + 2),
               IF channels = 4 THEN Load(src, base + 3) ELSE 0>>
        ELSE <<0, 0, 0, 0>>

\* lane x of y_vl0 (r = 0) or y_vl1 (r = 1)
sse420_luma(c, src, r, x, odd) ==
    sse420_dot(sse420_lane(c, src, r, x, odd),
               sse420_weights(c.ORIGIN_CHANNELS, c.transform.yr, c.transform.yg,
                              c.transform.yb),
               c.range.bias_y)

\* lane i of cb_vl (k = "cb") or cr_vl (k = "cr") of the 16 pixels from cx:
\* the two rows averaged, then the two columns, then the dot product
sse420_chroma(c, src, cx, i, odd, k) ==
    LET p0 == sse420_lane(c, src, 0, cx + 2 * i, odd)
        p1 == sse420_lane(c, src, 1, cx + 2 * i, odd)
        q0 == sse420_lane(c, src, 0, cx + 2 * i + 1, odd)
        q1 == sse420_lane(c, src, 1, cx + 2 * i + 1, odd)
        mean == [j \in 1..4 |-> mm_avg_epu8(mm_avg_epu8(p0[j], p1[j]),
                                            mm_avg_epu8(q0[j], q1[j]))]
        t == c.transform
    IN  sse420_dot(mean,
                   IF k = "cb" THEN sse420_weights(c.ORIGIN_CHANNELS, t.cb_r, t.cb_g, t.cb_b)
                   ELSE sse420_weights(c.ORIGIN_CHANNELS, t.cr_r, t.cr_g, t.cr_b),
                   c.range.bias_uv)

\* the source bytes of `pixels` pixels from cx of both rows
sse420_loads(c, cx, pixels) ==
    LET channels == get_channels_count(c.ORIGIN_CHANNELS)
    IN  {<<r, i>> : r \in 0..1, i \in (cx * channels)..((cx + pixels) * channels - 1)}

\* One turn of `while cx + 16 < width`.  y_vl0 and y_vl1 are stored whole, 16
\* bytes at cx of each luma row.  cb_vl and cr_vl hold the 8 chroma values
\* twice and are stored whole as well: _mm_storeu_si128 writes 16 bytes at
\* ux.  Where the chroma slice ends before ux + 16 that store leaves the
\* slice, which is undefined: either the bytes land (those inside the slice
\* in the slice, the others in the memory behind it) or the process is
\* stopped at the store.
Sse420Block ==
    /\ call.kernel = "sse_rgba_to_yuv_dot_rgba420"
    /\ status = "running"
    /\ off.cx + 16 < call.width
    /\ LET cx == off.cx
           ux == off.ux
           luma == [i \in DOMAIN y_plane |->
                       LET r == i \div call.width
                           x == i % call.width
                       IN  IF x >= cx /\ x < cx + 16
                           THEN sse420_luma(call, rgba, r, x, FALSE)
                           ELSE y_plane[i]]
           chroma(plane, k) ==
               [i \in DOMAIN plane |->
                   IF i >= ux /\ i < ux + 16
                   THEN sse420_chroma(call, rgba, cx, (i - ux) % 8, FALSE, k)
                   ELSE plane[i]]
           luma_wr == {<<r, i>> : r \in 0..1, i \in cx..(cx + 15)}
           chroma_wr == {<<0, i>> : i \in ux..(ux + 15)}
       IN  /\ y_plane' = luma
           /\ rd' = [rd EXCEPT !.rgba = @ \cup sse420_loads(call, cx, 16)]
           /\ \/ /\ u_plane' = chroma(u_plane, "cb")
                 /\ v_plane' = chroma(v_plane, "cr")
                 /\ wr' = [wr EXCEPT !.y_plane = @ \cup luma_wr,
                                     !.u_plane = @ \cup chroma_wr,
                                     !.v_plane = @ \cup chroma_wr]
                 /\ off' = [cx |-> cx + 16, ux |-> ux + 8]
                 /\ status' = status
              \/ /\ ux + 16 > DivCeil(call.width, 2)
                 /\ wr' = [wr EXCEPT !.y_plane = @ \cup luma_wr]
                 /\ status' = "panic"
                 /\ UNCHANGED <<u_plane, v_plane, off>>
    /\ UNCHANGED <<call, rgba, uv_plane, yuy2_store, y, rows>>

\* The loop is left: `if cx < width` converts the remaining diff pixels in
\* local buffers and copies diff luma bytes to each luma row and
\* diff.div_ceil(2) bytes to each chroma row; ProcessedOffset { cx, ux } is
\* returned.  assert!(diff <= 16) panics before any copy.
Sse420Tail ==
    /\ call.kernel = "sse_rgba_to_yuv_dot_rgba420"
    /\ status = "running"
    /\ ~(off.cx + 16 < call.width)
    /\ LET cx == off.cx
           ux == off.ux
           diff == call.width - cx
           hv == DivCeil(diff, 2)
           odd == diff % 2 # 0
           chroma(plane, k) ==
               [i \in DOMAIN plane |->
                   IF i >= ux /\ i < ux + hv
                   THEN sse420_chroma(call, rgba, cx, i - ux, odd, k)
                   ELSE plane[i]]
       IN  IF cx < call.width /\ diff > 16
           THEN /\ status' = "panic"
                /\ UNCHANGED <<y_plane, u_plane, v_plane, off, wr, rd>>
           ELSE IF cx < call.width
           THEN /\ y_plane' = [i \in DOMAIN y_plane |->
                                  LET r == i \div call.width
                                      x == i % call.width
                                  IN  IF x >= cx /\ x < cx + diff
                                      THEN sse420_luma(call, rgba, r, x, odd)
                                      ELSE y_plane[i]]
                /\ u_plane' = chroma(u_plane, "cb")
                /\ v_plane' = chroma(v_plane, "cr")
                /\ wr' = [wr EXCEPT
                            !.y_plane = @ \cup {<<r, i>> : r \in 0..1, i \in cx..(cx + diff - 1)},
                            !.u_plane = @ \cup {<<0, i>> : i \in ux..(ux + hv - 1)},
                            !.v_plane = @ \cup {<<0, i>> : i \in ux..(ux + hv - 1)}]
                /\ rd' = [rd EXCEPT !.rgba = @ \cup sse420_loads(call, cx, diff)]
                /\ off' = [cx |-> cx + diff, ux |-> ux + hv]
                /\ status' = "ok"
           ELSE /\ status' = "ok"
                /\ UNCHANGED <<y_plane, u_plane, v_plane, off, wr, rd>>
    /\ UNCHANGED <<call, rgba, uv_plane, yuy2_store, y, rows>>

(***************************************************************************)
(* Inputs of the SSE kernel: two rows of 1 .. 16 * MaxBlocks + MaxTail     *)
(* pixels from the palette in every channel order, the transform of every  *)
(* range and standard matrix at A_E bits, start offsets 0.                 *)
(***************************************************************************)
InitSse420 ==
    \E ch \in YuvSourceChannels, range \in YuvRange, matrix \in YuvStandardMatrix,
       width \in 1..(16 * MaxBlocks + MaxTail), seed \in 0..MaxSeed :
        LET rng == get_yuv_range(8, range)
            kr_kb == get_kr_kb(matrix)
            stride == width * get_channels_count(ch)
        IN  /\ call = [kernel |-> "sse_rgba_to_yuv_dot_rgba420", ORIGIN_CHANNELS |-> ch,
                       range |-> rng, width |-> width,
                       transform |-> to_integers_forward(
                           get_forward_transform(255, rng.range_y, rng.range_uv,
                                                 kr_kb.kr, kr_kb.kb), A_E)]
            /\ rgba = [i \in 0..(2 * stride - 1) |-> SourceByte(ch, seed, width, stride, i)]
            /\ y_plane = Buffer(2 * width, 0)
            /\ u_plane = Buffer(DivCeil(width, 2), 0)
            /\ v_plane = Buffer(DivCeil(width, 2), 0)
            /\ uv_plane = <<>>
            /\ yuy2_store = <<>>
            /\ y = 0
            /\ rows = {}
            /\ off = [cx |-> 0, ux |-> 0]
            /\ status = "running"
            /\ wr = NoAccess
            /\ rd = NoAccess

NextSse420 ==
    \/ Sse420Block
    \/ Sse420Tail

SpecSse420 ==
    InitSse420 /\ [][NextSse420]_vars

(***************************************************************************)
(* Properties of the SSE kernel (SpecSse420).                              *)
(***************************************************************************)
\* C30: for every width >= 1 and start offsets cx = ux = 0 the SSE 4:2:0
\* two-row kernel terminates without its assertion diff <= 16 failing,
\* returns cx = width and ux = ceil(width / 2), and stores only to luma
\* indices below width of each of the two luma rows and to U and V indices
\* below ceil(width / 2) of the chroma rows.
C30_Sse420StoresInRows ==
    call.kernel = "sse_rgba_to_yuv_dot_rgba420" =>
        /\ status # "panic"
        /\ status = "ok" => (off.cx = call.width /\ off.ux = DivCeil(call.width, 2))
        /\ \A a \in wr.y_plane : a[1] \in 0..1 /\ a[2] < call.width
        /\ \A a \in wr.u_plane \cup wr.v_plane : a[2] < DivCeil(call.width, 2)

====
